---- MODULE Spec2Model ----
(***************************************************************************)
(* Model of the Go backend of the Thrift compiler (t_go_generator.cc).     *)
(*                                                                         *)
(* The generator is modelled in two layers.  The operators named after the *)
(* generator's methods (generate_go_struct_writer, ...) compute an         *)
(* abstract description of the Go text they emit: which cases a switch     *)
(* has, which guards wrap a writer, which protocol calls are emitted and   *)
(* whether their error results are looked at.  The operators named after   *)
(* the emitted Go functions (Write, Read, Process, Receive, ...) execute   *)
(* that description with Go's semantics.                                   *)
(***************************************************************************)
EXTENDS Integers, Sequences, FiniteSets, TLC

VARIABLES
    mode,       \* which part of the generated program the behaviour exercises
    \* ---- struct codec ----
    schema,     \* the t_struct handed to generate_go_struct_definition
    code,       \* the generated Go code of that struct (abstract)
    kpc,        \* codec position: "idle" | "generated" | "built" | "written" | "read"
    rec,        \* the record R being written
    assigned,   \* the member of R the program assigned last (0: none yet)
    wire,       \* tokens received by the output protocol during Write
    werr,       \* Write returned an error
    wtrace,     \* per-field writer methods called by Write, in order
    rec2,       \* the record filled by Read
    rerr,       \* Read returned an error
    rtrace,     \* what Read did for each field header, in order
    rin,        \* the tokens Read was given
    \* ---- service processor ----
    svc,        \* the t_service chain handed to generate_service_server
    proc,       \* the processor made by New<Service>Processor
    sreq,       \* the request last given to Receive
    strace,     \* the calls Receive made for it, in order
    sret,       \* what Receive returned for it
    \* ---- service client ----
    cfn,        \* the t_function whose client method is called
    cseq,       \* the client's SeqId field
    cpc,        \* per caller: "idle" | "sent" | "done"
    cret,       \* per caller: the err the public method returned
    ctrace,     \* per caller: the calls its public method made, in order
    reqs,       \* the requests that reached the peer and are not yet answered
    inbox,      \* the tokens the client's input protocol has not yet read
    \* ---- enums ----
    tenum,      \* the t_enum handed to generate_enum
    ecode,      \* the generated Go code of that enum (abstract)
    ecall,      \* the last call of <Enum>FromString and what it returned
    \* ---- functions of the generator ----
    arg,        \* the argument a function of the generator is applied to
    res         \* what the function returned or threw (<<>>: not yet applied)

codecVars == <<schema, code, kpc, rec, assigned, wire, werr, wtrace, rec2, rerr, rtrace, rin>>

serverVars == <<svc, proc, sreq, strace, sret>>

clientVars == <<cfn, cseq, cpc, cret, ctrace, reqs, inbox>>

enumVars == <<tenum, ecode, ecall>>

callVars == <<arg, res>>

vars == <<mode, codecVars, serverVars, clientVars, enumVars, callVars>>

----------------------------------------------------------------------------
(* Bounds *)

\* number of bits of the integer that stands for Go's int32 / thrift I32
Int32Bits == 3
\* field keys range over KeyMin..KeyMax
KeyMin == -1
KeyMax == 1
\* a struct has at most MaxFields fields
MaxFields == 2
\* a function declares at most MaxExceptions exceptions
MaxExceptions == 2

----------------------------------------------------------------------------
(* Integers of the generated code *)

MinInt32 == -(2 ^ (Int32Bits - 1))

MaxInt32 == (2 ^ (Int32Bits - 1)) - 1

\* Go's conversion int32(x) of a wider integer: wraps modulo 2^32
ToInt32(x) == ((x - MinInt32) % (2 ^ Int32Bits)) + MinInt32

\* "math.MinInt32 - 1", the value the generated code uses for an unset enum
UnsetSentinel == MinInt32 - 1

Abs(k) == IF k < 0 THEN -k ELSE k

RECURSIVE SortedSeq(_)
SortedSeq(S) ==
    IF S = {} THEN <<>>
    ELSE LET m == CHOOSE x \in S : \A y \in S : x <= y
         IN  <<m>> \o SortedSeq(S \ {m})

SeqToSet(s) == {s[i] : i \in 1..Len(s)}

Reverse(s) == [i \in 1..Len(s) |-> s[Len(s) + 1 - i]]

----------------------------------------------------------------------------
(* The AST: types, fields, structs *)

BaseKinds == {"bool", "i32", "string", "binary"}

Kinds == BaseKinds \cup {"enum", "struct", "list", "set"}

\* A t_type.  alias = TRUE is a typedef whose underlying type is the kind.
TType(kind, alias) == [kind |-> kind, alias |-> alias]

Types == {TType(k, FALSE) : k \in Kinds} \cup {TType("enum", TRUE), TType("i32", TRUE)}

get_true_type(type) == [type EXCEPT !.alias = FALSE]

is_typedef(type) == type.alias

is_enum(type) == type.kind = "enum" /\ ~type.alias

is_base_type(type) == type.kind \in BaseKinds /\ ~type.alias

is_struct(type) == type.kind = "struct" /\ ~type.alias

is_container(type) == type.kind \in {"list", "set"} /\ ~type.alias

Reqs == {"required", "optional", "default"}

\* A t_field.  has_value says that the IDL declares a default value.
TField(name, key, type, req, has_value) ==
    [name |-> name, key |-> key, type |-> type, req |-> req, has_value |-> has_value]

----------------------------------------------------------------------------
(* Values of the generated Go types *)

NilV == [nil |-> TRUE, n |-> 0, elems |-> <<>>]

IntV(n) == [nil |-> FALSE, n |-> n, elems |-> <<>>]

SeqV(s) == [nil |-> FALSE, n |-> 0, elems |-> s]

\* the values a Go variable of the mapped type can hold (bounded)
ValuesOf(type) ==
    CASE type.kind = "bool"   -> {IntV(0), IntV(1)}
      [] type.kind = "i32"    -> {IntV(0), IntV(1)}
      [] type.kind = "string" -> {SeqV(<<>>), SeqV(<<1>>)}
      [] type.kind = "binary" -> {NilV, SeqV(<<>>), SeqV(<<1>>)}
      [] type.kind = "enum"   -> {IntV(UnsetSentinel), IntV(0), IntV(1)}
      [] type.kind = "struct" -> {NilV, SeqV(<<0>>), SeqV(<<1>>)}
      [] type.kind = "list"   -> {NilV, SeqV(<<>>), SeqV(<<1>>)}
      [] type.kind = "set"    -> {NilV, SeqV(<<>>), SeqV(<<3>>), SeqV(<<2>>)}

\* Go's zero value of the mapped type
ZeroValue(type) ==
    CASE type.kind \in {"bool", "i32", "enum"} -> IntV(0)
      [] type.kind = "string" -> SeqV(<<>>)
      [] OTHER -> NilV

\* the declared default value of a field that has one
ConstValue(type) ==
    CASE type.kind \in {"bool", "i32", "enum"} -> IntV(1)
      [] type.kind \in {"string", "binary", "struct", "list"} -> SeqV(<<1>>)
      [] type.kind = "set" -> SeqV(<<3>>)

----------------------------------------------------------------------------
(* t_struct views *)

\* insert field f into the key-sorted sequence s, after fields of equal key
InsertByKey(f, s) ==
    LET n == Cardinality({i \in 1..Len(s) : s[i].key <= f.key})
    IN  SubSeq(s, 1, n) \o <<f>> \o SubSeq(s, n + 1, Len(s))

RECURSIVE SortByKey(_)
\* t_struct::get_sorted_members: the members in ascending key order
SortByKey(members) ==
    IF members = <<>> THEN <<>>
    ELSE InsertByKey(members[Len(members)], SortByKey(SubSeq(members, 1, Len(members) - 1)))

\* mutant: the members in the order of their declaration
get_members(tstruct) == tstruct.members

get_sorted_members(tstruct) == SortByKey(tstruct.members)

UniqueKeys(members) ==
    \A i, j \in 1..Len(members) : members[i].key = members[j].key => i = j

\* index of the member that has the given key (0 when there is none)
MemberOfKey(members, key) ==
    IF \E i \in 1..Len(members) : members[i].key = key
    THEN CHOOSE i \in 1..Len(members) : members[i].key = key
    ELSE 0

----------------------------------------------------------------------------
(* Type mapping helpers of the generator *)

can_be_nil(type) ==
    LET t == get_true_type(type)
    IN  CASE t.kind \in {"bool", "i32"} -> FALSE
          [] t.kind = "string" -> FALSE
          [] t.kind = "binary" -> TRUE
          [] t.kind = "enum" -> FALSE
          [] t.kind \in {"struct", "list", "set"} -> TRUE

type_to_enum(type) ==
    LET t == get_true_type(type)
    IN  CASE t.kind = "binary" -> "BINARY"
          [] t.kind = "string" -> "STRING"
          [] t.kind = "bool" -> "BOOL"
          [] t.kind = "i32" -> "I32"
          [] t.kind = "enum" -> "I32"
          [] t.kind = "struct" -> "STRUCT"
          [] t.kind = "set" -> "SET"
          [] t.kind = "list" -> "LIST"

\* the name of a per-field method: the prefix gets "_" for a negative key and
\* the number is the key's absolute value (readField_1, writeField2)
MethodName(key) == [underscore |-> key < 0, id |-> Abs(key)]

----------------------------------------------------------------------------
(* generate_isset_helpers and the emitted IsSet<Field>() *)

\* an IsSet<Field> method is emitted for this field
HasIsSetHelper(f) == f.req = "optional" \/ is_enum(get_true_type(f.type))

\* the value of the emitted "func (p *T) IsSet<Field>() bool" when the field holds v
IsSet(f, v) ==
    LET type == get_true_type(f.type)
    IN  CASE type.kind = "binary" -> ~v.nil
          [] type.kind = "string" ->
                v.elems # (IF f.has_value THEN ConstValue(type).elems ELSE <<>>)
          [] type.kind = "bool" ->
                v.n # (IF f.has_value /\ ConstValue(type).n > 0 THEN 1 ELSE 0)
          [] type.kind = "i32" ->
                v.n # (IF f.has_value THEN ConstValue(type).n ELSE 0)
          [] type.kind = "enum" -> v.n # UnsetSentinel
          [] type.kind = "struct" -> ~v.nil
          [] type.kind \in {"list", "set"} ->
                IF f.has_value /\ Len(ConstValue(type).elems) > 0
                THEN ~v.nil
                ELSE ~v.nil /\ Len(v.elems) > 0

----------------------------------------------------------------------------
(* The constructor emitted by generate_go_struct_definition *)

render_field_default_value(f) == ConstValue(get_true_type(f.type))

\* mutant: the constructor leaves an enum field without default at zero
NewFieldValue_zero(f) ==
    IF f.has_value THEN render_field_default_value(f)
    ELSE ZeroValue(get_true_type(f.type))

\* the value New<Struct>() gives to field f
NewFieldValue(f) ==
    IF f.has_value THEN render_field_default_value(f)
    ELSE IF is_enum(get_true_type(f.type)) THEN IntV(UnsetSentinel)
    ELSE ZeroValue(get_true_type(f.type))

\* New<Struct>(): the record as a function from member index to value
NewStruct(tstruct) == [i \in 1..Len(tstruct.members) |-> NewFieldValue(tstruct.members[i])]

----------------------------------------------------------------------------
(* The wire: the calls a TProtocol receives, as tokens *)

Tok(op, ttype, id, n, s) == [op |-> op, ttype |-> ttype, id |-> id, n |-> n, s |-> s]

Op(op) == Tok(op, "", 0, 0, <<>>)

FieldBeginTok(ttype, id) == Tok("FieldBegin", ttype, id, 0, <<>>)

\* the struct every struct-typed field refers to: struct Inner { 1: i32 x }
InnerStruct ==
    [name |-> "Inner", is_result |-> FALSE,
     members |-> <<TField("x", 1, TType("i32", FALSE), "default", FALSE)>>]

\* a *Inner value as the record of its fields, and back
InnerRec(v) == [i \in 1..Len(v.elems) |-> IntV(v.elems[i])]

InnerVal(r) == SeqV([i \in 1..Len(r) |-> r[i].n])

----------------------------------------------------------------------------
(* generate_go_struct_writer: the emitted Write and writeField<N> *)

\* the per-field writer method emitted for sorted member f
WriterMethod(tstruct, f) ==
    [name |-> MethodName(f.key),
     member |-> CHOOSE i \in 1..Len(tstruct.members) : tstruct.members[i] = f,
     nil_guard |-> can_be_nil(f.type),
     isset_guard |-> (f.req = "optional" \/ is_enum(f.type)),
     ttype |-> type_to_enum(f.type),
     id |-> Abs(f.key)]

\* mutant: every clause of the switch is a case, none the default
WriterStmt_case(tstruct, f, is_result) ==
    [method |-> MethodName(f.key),
     guard_member |-> CHOOSE i \in 1..Len(tstruct.members) : tstruct.members[i] = f,
     is_default |-> FALSE]

\* a statement of Write's body: a call of a per-field writer, which in the
\* switch of a result struct is a "case p.<Field> != nil" or a "default"
WriterStmt(tstruct, f, is_result) ==
    [method |-> MethodName(f.key),
     guard_member |-> CHOOSE i \in 1..Len(tstruct.members) : tstruct.members[i] = f,
     is_default |-> is_result /\ ~(can_be_nil(f.type) /\ Abs(f.key) # 0)]

\* mutant: the result struct's writers are emitted as plain calls, as for any
\* other struct, instead of as the clauses of a switch
generate_go_struct_writer_calls(tstruct, is_result) ==
    LET fields == get_sorted_members(tstruct)
    IN  [is_switch |-> FALSE,
         stmts |-> [i \in 1..Len(fields) |-> WriterStmt(tstruct, fields[i], FALSE)],
         methods |-> [i \in 1..Len(fields) |-> WriterMethod(tstruct, fields[i])]]

generate_go_struct_writer(tstruct, is_result) ==
    LET fields == get_sorted_members(tstruct)
        rfields == Reverse(fields)
    IN  [is_switch |-> is_result /\ Len(fields) > 0,
         stmts |-> IF is_result /\ Len(fields) > 0
                   THEN [i \in 1..Len(fields) |-> WriterStmt(tstruct, rfields[i], TRUE)]
                   ELSE [i \in 1..Len(fields) |-> WriterStmt(tstruct, fields[i], FALSE)],
         methods |-> [i \in 1..Len(fields) |-> WriterMethod(tstruct, fields[i])]]

\* the statements of Write's body that execute for record r: all of them in
\* order, or for a Go expression switch the first case that holds and
\* otherwise the default clause, wherever it stands
SelectedStmts(w, r) ==
    IF ~w.is_switch THEN w.stmts
    ELSE LET cases == {i \in 1..Len(w.stmts) :
                          ~w.stmts[i].is_default /\ ~r[w.stmts[i].guard_member].nil}
             dflts == {i \in 1..Len(w.stmts) : w.stmts[i].is_default}
         IN  IF cases # {}
             THEN <<w.stmts[CHOOSE i \in cases : \A j \in cases : i <= j]>>
             ELSE IF dflts # {}
             THEN <<w.stmts[CHOOSE i \in dflts : \A j \in dflts : i <= j]>>
             ELSE <<>>

\* the method definition a call resolves to
MethodOf(methods, name) == methods[CHOOSE i \in 1..Len(methods) : methods[i].name = name]

RECURSIVE StructWriteChunks(_, _)
\* generate_serialize_field: the protocol calls that write value v of field f
SerializeField(f, v) ==
    LET type == get_true_type(f.type)
    IN  CASE type.kind = "bool" -> <<Tok("Bool", "", 0, v.n, <<>>)>>
          [] type.kind = "i32" -> <<Tok("I32", "", 0, ToInt32(v.n), <<>>)>>
          [] type.kind = "enum" -> <<Tok("I32", "", 0, ToInt32(v.n), <<>>)>>
          [] type.kind = "string" -> <<Tok("String", "", 0, 0, v.elems)>>
          [] type.kind = "binary" -> <<Tok("Binary", "", 0, 0, v.elems)>>
          [] type.kind = "struct" ->
                LET ch == StructWriteChunks(InnerStruct, InnerRec(v))
                IN  ch[1] \o ch[2][1] \o ch[3]
          [] type.kind = "list" ->
                <<Tok("ListBegin", "I32", 0, Len(v.elems), <<>>)>>
                \o [i \in 1..Len(v.elems) |-> Tok("I32", "", 0, ToInt32(v.elems[i]), <<>>)]
                \o <<Op("ListEnd")>>
          [] type.kind = "set" ->
                <<Tok("SetBegin", "I32", 0, Len(v.elems), <<>>)>>
                \o [i \in 1..Len(v.elems) |-> Tok("I32", "", 0, ToInt32(v.elems[i] \div 2), <<>>)]
                \o <<Op("SetEnd")>>

\* the emitted writeField<N>: the protocol calls it makes for record r
writeField(tstruct, m, r) ==
    LET f == tstruct.members[m.member]
        v == r[m.member]
    IN  IF (m.nil_guard => ~v.nil) /\ (m.isset_guard => IsSet(f, v))
        THEN <<FieldBeginTok(m.ttype, m.id)>> \o SerializeField(f, v) \o <<Op("FieldEnd")>>
        ELSE <<>>

RECURSIVE ConcatAll(_)
ConcatAll(ss) == IF ss = <<>> THEN <<>> ELSE ss[1] \o ConcatAll(Tail(ss))

\* the emitted Write when no protocol call fails, as <<head, chunks, tail>>:
\* chunks[1] is the concatenation of the per-field writers' calls and
\* chunks[2] the calls of each executed writer, in order
StructWriteChunks(tstruct, r) ==
    LET w == generate_go_struct_writer(tstruct, tstruct.is_result)
        sel == SelectedStmts(w, r)
        per == [i \in 1..Len(sel) |-> writeField(tstruct, MethodOf(w.methods, sel[i].method), r)]
    IN  << <<Op("StructBegin")>>,
           <<ConcatAll(per), per, [i \in 1..Len(sel) |-> sel[i].method]>>,
           <<Op("FieldStop"), Op("StructEnd")>> >>

\* all protocol calls of a Write in which none fails
WriteTokens(tstruct, r) ==
    LET ch == StructWriteChunks(tstruct, r)
    IN  ch[1] \o ch[2][1] \o ch[3]

\* number of protocol calls Write makes before it calls the k-th executed writer
CallsBefore(per, k) == 1 + Len(ConcatAll(SubSeq(per, 1, k - 1)))

\* The emitted Write with the failAt-th protocol call failing (0: none fails).
\* Every protocol call of Write and of the writers is followed by
\* "if err != nil { return ... }", so the first failure ends the Write.
Write(tstruct, r, failAt) ==
    LET ch == StructWriteChunks(tstruct, r)
        all == ch[1] \o ch[2][1] \o ch[3]
        per == ch[2][2]
        names == ch[2][3]
        fails == failAt > 0 /\ failAt <= Len(all)
        ncalled == Cardinality({k \in 1..Len(per) : ~fails \/ CallsBefore(per, k) < failAt})
    IN  [tokens |-> IF fails THEN SubSeq(all, 1, failAt - 1) ELSE all,
         err |-> fails,
         called |-> SubSeq(names, 1, ncalled)]

----------------------------------------------------------------------------
(* generate_go_struct_reader: the emitted Read and readField<N> *)

generate_go_struct_reader(tstruct) ==
    LET fields == tstruct.members
    IN  [has_switch |-> Len(fields) > 0,
         cases |-> [i \in 1..Len(fields) |->
                       [label |-> Abs(fields[i].key), method |-> MethodName(fields[i].key)]],
         has_default |-> Len(fields) > 0,
         methods |-> [i \in 1..Len(fields) |->
                       [name |-> MethodName(fields[i].key), member |-> i]]]

\* Go rejects a switch with two equal integer case labels, a switch with two
\* default clauses and a type with two methods of one name
Compiles(tstruct) ==
    LET rd == generate_go_struct_reader(tstruct)
        w == generate_go_struct_writer(tstruct, tstruct.is_result)
    IN  /\ \A i, j \in 1..Len(rd.cases) : rd.cases[i].label = rd.cases[j].label => i = j
        /\ \A i, j \in 1..Len(rd.methods) : rd.methods[i].name = rd.methods[j].name => i = j
        /\ \A i, j \in 1..Len(w.methods) : w.methods[i].name = w.methods[j].name => i = j
        /\ w.is_switch =>
              \A i, j \in 1..Len(w.stmts) :
                  w.stmts[i].is_default /\ w.stmts[j].is_default => i = j

ReadResult(ok, val, pos) == [ok |-> ok, val |-> val, pos |-> pos]

TokAt(toks, pos) == IF pos >= 1 /\ pos <= Len(toks) THEN toks[pos] ELSE Op("EOF")

\* iprot.Skip(fieldTypeId) of the runtime library: passes over one value of
\* the wire type; the position after it, or 0 if the tokens are no such value
Skip(ttype, toks, pos) ==
    LET t == TokAt(toks, pos)
    IN  CASE ttype \in {"BOOL", "I32", "STRING", "BINARY"} ->
               IF t.op \in {"Bool", "I32", "String", "Binary"} THEN pos + 1 ELSE 0
          [] ttype \in {"LIST", "SET"} ->
               IF t.op \in {"ListBegin", "SetBegin"}
                  /\ TokAt(toks, pos + t.n + 1).op \in {"ListEnd", "SetEnd"}
               THEN pos + t.n + 2 ELSE 0
          [] ttype = "STRUCT" ->
               LET ends == {q \in pos..Len(toks) : toks[q].op = "StructEnd"}
               IN  IF t.op = "StructBegin" /\ ends # {}
                   THEN (CHOOSE q \in ends : \A q2 \in ends : q <= q2) + 1
                   ELSE 0
          [] OTHER -> 0

ReadTrace(id, ttype, act, method) == [id |-> id, ttype |-> ttype, act |-> act, method |-> method]

NoMethod == [underscore |-> FALSE, id |-> -1]

ReadOutcome(r, err, trace, pos) == [rec |-> r, err |-> err, trace |-> trace, pos |-> pos]

RECURSIVE ReadFields(_, _, _, _, _)
RECURSIVE Read(_, _, _, _)
\* generate_deserialize_field: the emitted body of readField<N> for field f,
\* reading at position pos
DeserializeField(f, toks, pos) ==
    LET type == get_true_type(f.type)
        t == TokAt(toks, pos)
    IN  CASE type.kind = "bool" ->
               IF t.op = "Bool" THEN ReadResult(TRUE, IntV(t.n), pos + 1)
               ELSE ReadResult(FALSE, NilV, pos)
          [] type.kind \in {"i32", "enum"} ->
               IF t.op = "I32" THEN ReadResult(TRUE, IntV(t.n), pos + 1)
               ELSE ReadResult(FALSE, NilV, pos)
          [] type.kind \in {"string", "binary"} ->
               IF t.op \in {"String", "Binary"} THEN ReadResult(TRUE, SeqV(t.s), pos + 1)
               ELSE ReadResult(FALSE, NilV, pos)
          [] type.kind = "struct" ->
               LET o == Read(InnerStruct, NewStruct(InnerStruct), toks, pos)
               IN  ReadResult(~o.err, InnerVal(o.rec), o.pos)
          [] type.kind = "list" ->
               IF /\ t.op = "ListBegin"
                  /\ \A i \in 1..t.n : TokAt(toks, pos + i).op = "I32"
                  /\ TokAt(toks, pos + t.n + 1).op = "ListEnd"
               THEN ReadResult(TRUE, SeqV([i \in 1..t.n |-> toks[pos + i].n]), pos + t.n + 2)
               ELSE ReadResult(FALSE, NilV, pos)
          [] type.kind = "set" ->
               IF /\ t.op = "SetBegin"
                  /\ \A i \in 1..t.n : TokAt(toks, pos + i).op = "I32"
                  /\ TokAt(toks, pos + t.n + 1).op = "SetEnd"
               THEN ReadResult(TRUE, SeqV([i \in 1..t.n |-> 2 * toks[pos + i].n + 1]), pos + t.n + 2)
               ELSE ReadResult(FALSE, NilV, pos)

\* the "for { ... }" loop of the emitted Read, at the field header at pos
ReadFields(tstruct, toks, pos, r, trace) ==
    LET rd == generate_go_struct_reader(tstruct)
        t == TokAt(toks, pos)
        hits == {i \in 1..Len(rd.cases) : rd.cases[i].label = t.id}
    IN  IF t.op = "FieldStop"
        THEN IF TokAt(toks, pos + 1).op = "StructEnd"
             THEN ReadOutcome(r, FALSE, trace, pos + 2)
             ELSE ReadOutcome(r, TRUE, trace, pos + 1)
        ELSE IF t.op # "FieldBegin"
        THEN ReadOutcome(r, TRUE, trace, pos)
        ELSE IF rd.has_switch /\ hits # {}
        THEN LET c == rd.cases[CHOOSE i \in hits : \A j \in hits : i <= j]
                 m == MethodOf(rd.methods, c.method)
                 d == DeserializeField(tstruct.members[m.member], toks, pos + 1)
                 tr == Append(trace, ReadTrace(t.id, t.ttype, "read", c.method))
             IN  IF ~d.ok THEN ReadOutcome(r, TRUE, tr, d.pos)
                 ELSE IF TokAt(toks, d.pos).op # "FieldEnd"
                 THEN ReadOutcome([r EXCEPT ![m.member] = d.val], TRUE, tr, d.pos)
                 ELSE ReadFields(tstruct, toks, d.pos + 1, [r EXCEPT ![m.member] = d.val], tr)
        ELSE IF rd.has_switch /\ rd.has_default
        THEN LET p2 == Skip(t.ttype, toks, pos + 1)
                 tr == Append(trace, ReadTrace(t.id, t.ttype, "skip", NoMethod))
             IN  IF p2 = 0 \/ TokAt(toks, p2).op # "FieldEnd"
                 THEN ReadOutcome(r, TRUE, tr, pos + 1)
                 ELSE ReadFields(tstruct, toks, p2 + 1, r, tr)
        ELSE \* no switch was emitted: the value is left in the stream and
             \* ReadFieldEnd and the next ReadFieldBegin run into it
             LET tr == Append(trace, ReadTrace(t.id, t.ttype, "none", NoMethod))
             IN  ReadOutcome(r, TRUE, tr, pos + 1)

\* the emitted "func (p *T) Read(iprot) error" on receiver r, reading at pos
Read(tstruct, r, toks, pos) ==
    IF TokAt(toks, pos).op # "StructBegin"
    THEN ReadOutcome(r, TRUE, <<>>, pos)
    ELSE ReadFields(tstruct, toks, pos + 1, r, <<>>)

----------------------------------------------------------------------------
(* The structs the codec behaviours range over *)

\* a protocol call of Write may be made to fail up to this position
MaxFailAt == 3

Keys == KeyMin..KeyMax

FieldShapes == [type : Types, req : Reqs, has_value : BOOLEAN]

\* the shapes of the fields of a struct that has several fields
PlainShapes ==
    {[type |-> TType("i32", FALSE), req |-> "default", has_value |-> FALSE],
     [type |-> TType("struct", FALSE), req |-> "default", has_value |-> FALSE]}

FieldNames == <<"a", "b", "c", "d">>

\* the sequences of n keys that are unique in their struct
KeyLists(n) == {k \in [1..n -> Keys] : \A i, j \in 1..n : k[i] = k[j] => i = j}

\* The member lists of the declared structs and exceptions and of the Args
\* structs: no field, one field of any shape and key, or up to MaxFields
\* fields of the plain shapes in any declaration order of their keys.
MemberLists ==
    {<<>>}
    \cup {<<TField(FieldNames[1], k, sh.type, sh.req, sh.has_value)>> :
            k \in Keys, sh \in FieldShapes}
    \cup UNION {
        {[i \in 1..n |-> TField(FieldNames[i], ks[i], sh[i].type, sh[i].req, sh[i].has_value)] :
            ks \in KeyLists(n), sh \in [1..n -> PlainShapes]}
        : n \in 2..MaxFields}

StructSchemas == {[name |-> "S", is_result |-> FALSE, members |-> m] : m \in MemberLists}

ExceptionNames == <<"e1", "e2", "e3">>

\* the throws lists of a function: exception-typed fields with unique keys
XceptionLists ==
    UNION {
        {[i \in 1..n |-> TField(ExceptionNames[i], ks[i], TType("struct", FALSE), "default", FALSE)] :
            ks \in KeyLists(n)}
        : n \in 0..MaxExceptions}

ReturnTypes == Types \cup {TType("void", FALSE)}

is_void(type) == type.kind = "void"

\* generate_go_function_helpers: the <function>_result struct of a function
\* with the given return type and throws list
ResultStruct(returntype, xceptions) ==
    [name |-> "f_result", is_result |-> TRUE,
     members |-> (IF is_void(returntype) THEN <<>>
                  ELSE <<TField("success", 0, returntype, "default", FALSE)>>) \o xceptions]

ResultSchemas ==
    {s \in {ResultStruct(rt, xs) : rt \in ReturnTypes, xs \in XceptionLists} :
        UniqueKeys(s.members)}

Schemas == StructSchemas \cup ResultSchemas

\* The header and value a peer sends for field id.  For an id that the
\* reader's switch knows, the value has the type of the reader's field (the
\* two IDLs agree on the fields they share); for another id it is an i32 or,
\* with alt, a struct.
PeerField(tstruct, id, alt) ==
    LET hits == {i \in 1..Len(tstruct.members) : Abs(tstruct.members[i].key) = id}
    IN  IF hits # {}
        THEN LET f == tstruct.members[CHOOSE i \in hits : \A j \in hits : i <= j]
             IN  <<FieldBeginTok(type_to_enum(f.type), id)>>
                 \o SerializeField(f, ConstValue(get_true_type(f.type)))
                 \o <<Op("FieldEnd")>>
        ELSE IF alt
        THEN <<FieldBeginTok("STRUCT", id)>> \o WriteTokens(InnerStruct, <<IntV(1)>>)
             \o <<Op("FieldEnd")>>
        ELSE <<FieldBeginTok("I32", id), Tok("I32", "", 0, 1, <<>>), Op("FieldEnd")>>

\* a peer sends at most MaxHeaders fields
MaxHeaders == 2

PeerIds == KeyMin..(KeyMax + 1)

\* the structs a peer's Write can send: fields in ascending order of id
PeerWires(tstruct) ==
    {<<Op("StructBegin")>>
       \o ConcatAll([i \in 1..Cardinality(ids) |-> PeerField(tstruct, SortedSeq(ids)[i], alt)])
       \o <<Op("FieldStop"), Op("StructEnd")>> :
        ids \in {x \in SUBSET PeerIds : Cardinality(x) >= 1 /\ Cardinality(x) <= MaxHeaders},
        alt \in BOOLEAN}

----------------------------------------------------------------------------
(* The AST of services *)

\* a service chain has at most MaxDepth services (a root and its descendants)
MaxDepth == 2
\* sequence ids of requests range over 1..MaxSeqId
MaxSeqId == 2

FunctionNames == {"f1", "f2"}

\* a name a peer may put into a request that no service declares
UndeclaredName == "zz"

RequestNames == FunctionNames \cup {UndeclaredName}

\* a t_function: one-way flag, void return type, number of declared exceptions
TFunction(name, oneway, void, nx) == [name |-> name, oneway |-> oneway, void |-> void, nx |-> nx]

FunctionAttrs == [oneway : BOOLEAN, void : BOOLEAN, nx : 0..MaxExceptions]

\* A service chain: service 1 is the root, service d extends service d - 1,
\* and service "depth" is the one that is served.  level[n] is the service
\* that declares function n (0: none).  Function f1 has the attributes
\* attrs; f2 is "i32 f2() throws (1: E e)".
ServiceChains ==
    {[depth |-> d, level |-> lv, attrs |-> at] :
        d \in 1..MaxDepth, lv \in [FunctionNames -> 0..MaxDepth], at \in FunctionAttrs}

\* a one-way function is void and declares no exception
WellFormedChain(c) ==
    /\ \A n \in FunctionNames : c.level[n] <= c.depth
    /\ c.attrs.oneway => (c.attrs.void /\ c.attrs.nx = 0)

get_function(c, name) ==
    IF name = "f1" THEN TFunction(name, c.attrs.oneway, c.attrs.void, c.attrs.nx)
    ELSE TFunction(name, FALSE, FALSE, 1)

\* t_service::get_functions of the service at depth d
get_functions(c, d) == {n \in FunctionNames : c.level[n] = d}

----------------------------------------------------------------------------
(* generate_service_server: New<Service>Processor and Receive *)

NoEntry == [present |-> FALSE, service |-> 0]

\* mutant: a derived processor starts from an empty map instead of from the
\* map made by its parent's New...Processor
NewProcessorMap_own(c, d) ==
    [n \in RequestNames |->
        IF n \in get_functions(c, d) THEN [present |-> TRUE, service |-> d] ELSE NoEntry]

RECURSIVE NewProcessorMap(_, _)
\* The processorMap after New<Service>Processor of the service at depth d.
\* A root service makes the map and stores its functions; a derived service
\* first calls its parent's New...Processor and then AddToProcessorMap for
\* each of its own functions.
NewProcessorMap(c, d) ==
    LET own == [n \in RequestNames |->
                   IF n \in get_functions(c, d)
                   THEN [present |-> TRUE, service |-> d] ELSE NoEntry]
    IN  IF d <= 1 THEN own
        ELSE LET parent == NewProcessorMap(c, d - 1)
             IN  [n \in RequestNames |-> IF own[n].present THEN own[n] ELSE parent[n]]

\* p.GetProcessorFunction(key)
GetProcessorFunction(map, key) == map[key]

----------------------------------------------------------------------------
(* generate_process_function: the emitted Process *)

\* a call made by the generated server code
Ev(ev, name, mtype, seqid, kind, failed) ==
    [ev |-> ev, name |-> name, mtype |-> mtype, seqid |-> seqid, kind |-> kind, failed |-> failed]

Call(ev) == Ev(ev, "", "", 0, "", FALSE)

ProcessReturn(trace, success, err) == [trace |-> trace, success |-> success, err |-> err]

\* the calls of the output protocol that the environment can make fail
OutCalls == {"WriteMessageBegin", "Write", "WriteMessageEnd", "Flush"}

OutFailures == {"none"} \cup OutCalls

\* what the user's handler does: returns normally, returns one of the declared
\* exceptions, returns a non-nil error, or panics
HandlerOutcomes == {"ok", "declared", "error", "panic"}

\* "x := NewTApplicationException(kind, ...)" written as an EXCEPTION message;
\* none of the four results is looked at
WriteApplicationException(name, seqId, kind, outfail) ==
    << Ev("WriteMessageBegin", name, "EXCEPTION", seqId, "", outfail = "WriteMessageBegin"),
       Ev("x.Write", "", "", 0, kind, outfail = "Write"),
       Ev("WriteMessageEnd", "", "", 0, "", outfail = "WriteMessageEnd"),
       Ev("Flush", "", "", 0, "", outfail = "Flush") >>

\* mutant: the read error is answered but not returned
ProcessReadError_nil(fn, req, outfail) ==
    ProcessReturn(
        << Ev("args.Read", "", "", 0, "", TRUE), Call("iprot.ReadMessageEnd") >>
        \o WriteApplicationException(fn.name, req.seqId, "PROTOCOL_ERROR", outfail),
        FALSE, "nil")

\* Process when args.Read(iprot) returned an error (lines 2318-2326)
ProcessReadError(fn, req, outfail) ==
    ProcessReturn(
        << Ev("args.Read", "", "", 0, "", TRUE), Call("iprot.ReadMessageEnd") >>
        \o WriteApplicationException(fn.name, req.seqId, "PROTOCOL_ERROR", outfail),
        FALSE, "read_error")

\* the handler call inside the func with the deferred recover (lines 2344-2393)
CallHandler(fn, outcome) ==
    [trace |-> <<Ev("handler", fn.name, "", 0, outcome, outcome \in {"error", "panic"})>>,
     callbackError |-> outcome \in {"error", "panic"}]

\* mutant: the check of callbackError is missing and the result is written
ProcessFault_reply(fn, req, outfail) ==
    ProcessReturn(
        << Ev("WriteMessageBegin", fn.name, "REPLY", req.seqId, "", outfail = "WriteMessageBegin"),
           Ev("result.Write", "", "", 0, "", outfail = "Write"),
           Ev("WriteMessageEnd", "", "", 0, "", outfail = "WriteMessageEnd"),
           Ev("Flush", "", "", 0, "", outfail = "Flush") >>,
        outfail = "none",
        IF outfail = "none" THEN "nil" ELSE "write_error")

\* Process after the handler call when callbackError != nil (lines 2400-2407)
ProcessFault(fn, req, outfail) ==
    ProcessReturn(WriteApplicationException(fn.name, req.seqId, "INTERNAL_ERROR", outfail),
                  FALSE, "nil")

\* mutant: the errors of the four calls are dropped and success is returned
ProcessReply_true(fn, req, outfail) ==
    ProcessReturn(
        << Ev("WriteMessageBegin", fn.name, "REPLY", req.seqId, "", outfail = "WriteMessageBegin"),
           Ev("result.Write", "", "", 0, "", outfail = "Write"),
           Ev("WriteMessageEnd", "", "", 0, "", outfail = "WriteMessageEnd"),
           Ev("Flush", "", "", 0, "", outfail = "Flush") >>,
        TRUE, "nil")

\* Process after the handler call when callbackError == nil (lines 2408-2423):
\* the four calls are all made and err keeps the first error
ProcessReply(fn, req, outfail) ==
    ProcessReturn(
        << Ev("WriteMessageBegin", fn.name, "REPLY", req.seqId, "", outfail = "WriteMessageBegin"),
           Ev("result.Write", "", "", 0, "", outfail = "Write"),
           Ev("WriteMessageEnd", "", "", 0, "", outfail = "WriteMessageEnd"),
           Ev("Flush", "", "", 0, "", outfail = "Flush") >>,
        outfail = "none",
        IF outfail = "none" THEN "nil" ELSE "write_error")

\* mutant: Completed is called where it is written instead of being deferred
\* to the return of Process
Process_undeferred(fn, req, listener, readfail, outcome, outfail) ==
    IF readfail THEN ProcessReadError(fn, req, outfail)
    ELSE LET h == CallHandler(fn, outcome)
             fault == IF h.callbackError THEN "fault" ELSE "nil"
             out == IF h.callbackError THEN ProcessFault(fn, req, outfail)
                    ELSE ProcessReply(fn, req, outfail)
         IN  ProcessReturn(
                 << Ev("args.Read", "", "", 0, "", FALSE), Call("iprot.ReadMessageEnd") >>
                 \o (IF listener THEN <<Call("PreHandle")>> ELSE <<>>)
                 \o h.trace
                 \o (IF listener THEN <<Ev("PostHandle", "", "", 0, fault, FALSE),
                                        Ev("Completed", "", "", 0, fault, FALSE)>> ELSE <<>>)
                 \o out.trace,
                 out.success, out.err)

\* the emitted "func (p *<svc>Processor<Fn>) Process(request)"
Process(fn, req, listener, readfail, outcome, outfail) ==
    IF readfail THEN ProcessReadError(fn, req, outfail)
    ELSE LET h == CallHandler(fn, outcome)
             fault == IF h.callbackError THEN "fault" ELSE "nil"
             out == IF h.callbackError THEN ProcessFault(fn, req, outfail)
                    ELSE ProcessReply(fn, req, outfail)
         IN  ProcessReturn(
                 << Ev("args.Read", "", "", 0, "", FALSE), Call("iprot.ReadMessageEnd") >>
                 \o (IF listener THEN <<Call("PreHandle")>> ELSE <<>>)
                 \o h.trace
                 \o (IF listener THEN <<Ev("PostHandle", "", "", 0, fault, FALSE)>> ELSE <<>>)
                 \o out.trace
                 \o (IF listener THEN <<Ev("Completed", "", "", 0, fault, FALSE)>> ELSE <<>>),
                 out.success, out.err)

\* the emitted Receive of the root processor, which a derived processor
\* inherits through the embedded parent processor (lines 2246-2263)
Receive(c, map, req, listener, readfail, outcome, outfail) ==
    LET e == GetProcessorFunction(map, req.name)
    IN  IF e.present
        THEN Process(get_function(c, req.name), req, listener, readfail, outcome, outfail)
        ELSE ProcessReturn(
                << Ev("iprot.Skip", "", "STRUCT", 0, "", FALSE), Call("iprot.ReadMessageEnd") >>
                \o WriteApplicationException(req.name, req.seqId, "UNKNOWN_METHOD", outfail),
                FALSE, "unknown_method")

----------------------------------------------------------------------------
(* generate_service_client: the emitted client methods *)

\* the functions a client method is generated for; a one-way function is
\* void and declares no exception
ClientFunctions ==
    {TFunction("f1", a.oneway, a.void, a.nx) :
        a \in {x \in FunctionAttrs : x.oneway => (x.void /\ x.nx = 0)}}

\* a token of the client's input stream: the header, the body and the end of
\* a message
MsgTok(op, mtype, seqid, kind) == [op |-> op, mtype |-> mtype, seqid |-> seqid, kind |-> kind]

\* the message a peer writes
Message(mtype, seqid, kind) ==
    << MsgTok("MsgBegin", mtype, seqid, ""), MsgTok("Body", mtype, 0, kind),
       MsgTok("MsgEnd", "", 0, "") >>

\* the calls of the input protocol that the environment can make fail
InFailures == {"none", "ReadMessageBegin", "Read", "ReadMessageEnd"}

ClientReturn(trace, err, seqId, rest) == [trace |-> trace, err |-> err, seqId |-> seqId, rest |-> rest]

\* the emitted send<Name>: p.SeqId++, then four calls on the output protocol
\* of which only args.Write has its error kept (lines 1654-1674)
send(fn, seqId, outfail) ==
    ClientReturn(
        << Ev("send", fn.name, "", seqId + 1, "", FALSE),
           Ev("WriteMessageBegin", fn.name, "CALL", seqId + 1, "", outfail = "WriteMessageBegin"),
           Ev("args.Write", "", "", 0, "", outfail = "Write"),
           Ev("WriteMessageEnd", "", "", 0, "", outfail = "WriteMessageEnd"),
           Ev("Flush", "", "", 0, "", outfail = "Flush") >>,
        IF outfail = "Write" THEN "write_error" ELSE "nil",
        seqId + 1, <<>>)

HeadOp(stream) == IF stream = <<>> THEN "EOF" ELSE stream[1].op

\* the stream after n more tokens were read
Drop(stream, n) == SubSeq(stream, n + 1, Len(stream))

\* reading the body of a message: the rest of the stream, or the stream
\* itself when the read fails or no body is there
ReadBody(stream, fails) == IF ~fails /\ HeadOp(stream) = "Body" THEN Drop(stream, 1) ELSE stream

BodyFails(stream, fails) == fails \/ HeadOp(stream) # "Body"

EndFails(stream, fails) == fails \/ HeadOp(stream) # "MsgEnd"

ReadEnd(stream, fails) == IF ~fails /\ HeadOp(stream) = "MsgEnd" THEN Drop(stream, 1) ELSE stream

\* recv<Name> when mTypeId == thrift.EXCEPTION: the application exception is
\* read, then the message end, and both results are checked (lines 1715-1727)
recvException(pre, seqId, s1, infail) ==
    LET bf == BodyFails(s1, infail = "Read")
        s2 == ReadBody(s1, infail = "Read")
        ef == EndFails(s2, infail = "ReadMessageEnd")
        s3 == ReadEnd(s2, infail = "ReadMessageEnd")
        rd == Ev("error.Read", "", "", 0, IF bf THEN "" ELSE s1[1].kind, bf)
        en == Ev("ReadMessageEnd", "", "", 0, "", ef)
    IN  IF bf THEN ClientReturn(pre \o <<rd>>, "read_error", seqId, s2)
        ELSE IF ef THEN ClientReturn(pre \o <<rd, en>>, "read_error", seqId, s3)
        ELSE ClientReturn(pre \o <<rd, en>>, "application_exception", seqId, s3)

\* recv<Name> when p.SeqId != seqId (lines 1728-1731)
recvBadSequenceId(pre, seqId, s1) == ClientReturn(pre, "BAD_SEQUENCE_ID", seqId, s1)

\* recv<Name> reading the Result struct: err is what result.Read returned
\* and the result of ReadMessageEnd is dropped (lines 1732-1754)
recvResult(pre, seqId, s1, infail) ==
    LET bf == BodyFails(s1, infail = "Read")
        s2 == ReadBody(s1, infail = "Read")
        ef == EndFails(s2, infail = "ReadMessageEnd")
        s3 == ReadEnd(s2, infail = "ReadMessageEnd")
    IN  ClientReturn(
            pre \o << Ev("result.Read", "", "", 0, "", bf),
                      Ev("ReadMessageEnd", "", "", 0, "", ef) >>,
            IF bf THEN "read_error" ELSE "nil", seqId, s3)

\* mutant: the sequence id is compared before the message type is looked at
recvReply_seqid_first(pre, seqId, h, s1, infail) ==
    IF seqId # h.seqid THEN recvBadSequenceId(pre, seqId, s1)
    ELSE IF h.mtype = "EXCEPTION" THEN recvException(pre, seqId, s1, infail)
    ELSE recvResult(pre, seqId, s1, infail)

\* recv<Name> after ReadMessageBegin returned the header h (lines 1715-1734)
recvReply(pre, seqId, h, s1, infail) ==
    IF h.mtype = "EXCEPTION" THEN recvException(pre, seqId, s1, infail)
    ELSE IF seqId # h.seqid THEN recvBadSequenceId(pre, seqId, s1)
    ELSE recvResult(pre, seqId, s1, infail)

\* the emitted recv<Name> (lines 1705-1754), reading from stream while the
\* client's SeqId is seqId
recv(fn, seqId, stream, infail) ==
    LET start == Ev("recv", fn.name, "", seqId, "", FALSE)
        beginFails == infail = "ReadMessageBegin" \/ HeadOp(stream) # "MsgBegin"
        begin == Ev("ReadMessageBegin", "", IF beginFails THEN "" ELSE stream[1].mtype,
                    IF beginFails THEN 0 ELSE stream[1].seqid, "", beginFails)
    IN  IF beginFails
        THEN ClientReturn(<<start, begin>>, "read_error", seqId,
                          IF infail = "ReadMessageBegin" THEN stream ELSE Drop(stream, 1))
        ELSE recvReply(<<start, begin>>, seqId, stream[1], Drop(stream, 1), infail)

\* the emitted public method calls recv<Name> after send<Name> (lines 1638-1644)
CallsRecv(fn) == ~fn.oneway

----------------------------------------------------------------------------
(* Names: a name is the sequence of its characters *)

Lower == << "a", "b", "c", "d", "e", "f", "g", "h", "i", "j", "k", "l", "m",
            "n", "o", "p", "q", "r", "s", "t", "u", "v", "w", "x", "y", "z" >>

Upper == << "A", "B", "C", "D", "E", "F", "G", "H", "I", "J", "K", "L", "M",
            "N", "O", "P", "Q", "R", "S", "T", "U", "V", "W", "X", "Y", "Z" >>

islower(ch) == \E i \in 1..Len(Lower) : Lower[i] = ch

isupper(ch) == \E i \in 1..Len(Upper) : Upper[i] = ch

toupper(ch) == IF islower(ch) THEN Upper[CHOOSE i \in 1..Len(Lower) : Lower[i] = ch] ELSE ch

\* value.rfind('.'): the last position of a dot, 0 when there is none
rfind_dot(value) ==
    IF \E i \in 1..Len(value) : value[i] = "."
    THEN CHOOSE i \in 1..Len(value) : value[i] = "." /\ \A j \in (i + 1)..Len(value) : value[j] # "."
    ELSE 0

RECURSIVE publicize_loop(_, _)
\* the loop of publicize over value2 from position i (1-based): an
\* underscore followed by a lowercase letter is replaced by the capital
publicize_loop(value2, i) ==
    IF i >= Len(value2) THEN value2
    ELSE IF value2[i] = "_" /\ islower(value2[i + 1])
    THEN publicize_loop(SubSeq(value2, 1, i - 1) \o <<toupper(value2[i + 1])>>
                            \o SubSeq(value2, i + 2, Len(value2)), i + 1)
    ELSE publicize_loop(value2, i + 1)

\* t_go_generator::publicize, for a name whose last segment is not empty
publicize(value) ==
    IF Len(value) = 0 THEN value
    ELSE LET dot_pos == rfind_dot(value)
             prefix == SubSeq(value, 1, dot_pos)
             v2 == SubSeq(value, dot_pos + 1, Len(value))
             v3 == IF ~isupper(v2[1]) THEN <<toupper(v2[1])>> \o Tail(v2) ELSE v2
         IN  prefix \o publicize_loop(v3, 2)

\* ::tolower on one character
tolower(ch) == IF isupper(ch) THEN Lower[CHOOSE i \in 1..Len(Upper) : Upper[i] = ch] ELSE ch

isalpha(ch) == islower(ch) \/ isupper(ch)

RECURSIVE privatize_loop(_, _)
\* the loop of privatize over value2 from position i (1-based): an
\* underscore followed by a letter is replaced by the capital of the letter
privatize_loop(value2, i) ==
    IF i >= Len(value2) THEN value2
    ELSE IF value2[i] = "_" /\ isalpha(value2[i + 1])
    THEN privatize_loop(SubSeq(value2, 1, i - 1) \o <<toupper(value2[i + 1])>>
                            \o SubSeq(value2, i + 2, Len(value2)), i + 1)
    ELSE privatize_loop(value2, i + 1)

\* t_go_generator::privatize
privatize(value) ==
    IF Len(value) = 0 THEN value
    ELSE LET v2 == IF ~islower(value[1]) THEN <<tolower(value[1])>> \o Tail(value) ELSE value
         IN  privatize_loop(v2, 2)

\* the words variable_name_to_go_name compares the lower-cased name with
ReservedWords ==
    { <<"b", "r", "e", "a", "k">>,
      <<"c", "a", "s", "e">>,
      <<"c", "h", "a", "n">>,
      <<"c", "o", "n", "s", "t">>,
      <<"c", "o", "n", "t", "i", "n", "u", "e">>,
      <<"d", "e", "f", "a", "u", "l", "t">>,
      <<"d", "e", "f", "e", "r">>,
      <<"e", "l", "s", "e">>,
      <<"e", "r", "r", "o", "r">>,
      <<"f", "a", "l", "l", "t", "h", "r", "o", "u", "g", "h">>,
      <<"f", "o", "r">>,
      <<"f", "u", "n", "c">>,
      <<"g", "o">>,
      <<"g", "o", "t", "o">>,
      <<"i", "f">>,
      <<"i", "m", "p", "o", "r", "t">>,
      <<"i", "n", "t", "e", "r", "f", "a", "c", "e">>,
      <<"m", "a", "p">>,
      <<"p", "a", "c", "k", "a", "g", "e">>,
      <<"r", "a", "n", "g", "e">>,
      <<"r", "e", "t", "u", "r", "n">>,
      <<"s", "e", "l", "e", "c", "t">>,
      <<"s", "t", "r", "u", "c", "t">>,
      <<"s", "w", "i", "t", "c", "h">>,
      <<"t", "y", "p", "e">>,
      <<"v", "a", "r">> }

\* "_a1"
Suffix == <<"_", "a", "1">>

\* mutant: the name is returned as it is also when it is a reserved word
variable_name_to_go_name_same(value) == value

\* t_go_generator::variable_name_to_go_name: the switch on value[0] selects
\* the words that begin with that letter in either case
variable_name_to_go_name(value) ==
    IF Len(value) = 0 THEN value
    ELSE LET value2 == [i \in 1..Len(value) |-> tolower(value[i])]
             cases == {w \in ReservedWords : w[1] = tolower(value[1])}
         IN  IF cases = {} THEN value
             ELSE IF value2 \notin cases THEN value
             ELSE value2 \o Suffix

\* the names the functions are applied to: every name of up to MaxNameLen
\* characters of NameChars that does not end in a dot, and some longer ones
MaxNameLen == 4

NameChars == {"g", "o", "G", "_", ".", "x"}

LongNames ==
    { <<"T", "y", "p", "e">>,
      <<"t", "y", "p", "e">>,
      <<"T", "Y", "P", "E">>,
      <<"m", "y", "_", "f", "i", "e", "l", "d", "_", "n", "a", "m", "e">>,
      <<"a", ".", "m", "y", "_", "f", "i", "e", "l", "d">>,
      <<"e", "r", "r", "o", "r">>,
      <<"M", "a", "p">>,
      <<"_", "t", "y", "p", "e">>,
      <<"s", "e", "l", "e", "c", "t">> }

Names ==
    LongNames
    \cup UNION {{n \in [1..k -> NameChars] : n[k] # "."} : k \in 1..MaxNameLen}

\* t_generator::escape_string: a backslash is put before a quote or a backslash
RECURSIVE escape_string(_)
escape_string(in) ==
    IF in = <<>> THEN <<>>
    ELSE (IF Head(in) \in {"\"", "\\"} THEN <<"\\", Head(in)>> ELSE <<Head(in)>>)
         \o escape_string(Tail(in))

----------------------------------------------------------------------------
(* generate_enum: the emitted constants and <Enum>FromString *)

TEnumValue(name, has_value, value) == [name |-> name, has_value |-> has_value, value |-> value]

RECURSIVE EnumValues(_, _)
\* the value given to each constant: its declared value, else one more than
\* the constant before it, starting from -1 (lines 672-679)
EnumValues(constants, value) ==
    IF constants = <<>> THEN <<>>
    ELSE LET v == IF Head(constants).has_value THEN Head(constants).value ELSE value + 1
         IN  <<v>> \o EnumValues(Tail(constants), v)

\* the "case" of FromString emitted for one constant (lines 681-697)
FromStringCase(tenum_name, c, i) ==
    LET iter_std_name == escape_string(c.name)
        iter_name == c.name
    IN  IF iter_std_name # escape_string(iter_name)
        THEN [labels |-> <<tenum_name \o <<"_">> \o iter_std_name, escape_string(iter_name)>>, const |-> i]
        ELSE [labels |-> <<tenum_name \o <<"_">> \o iter_std_name>>, const |-> i]

\* the Go code emitted for an enum
generate_enum(e) ==
    LET tenum_name == publicize(e.name)
        values == EnumValues(e.constants, -1)
    IN  [generated |-> TRUE,
         tenum_name |-> tenum_name,
         consts |-> [i \in 1..Len(e.constants) |->
                        [name |-> tenum_name \o <<"_">> \o e.constants[i].name, value |-> values[i]]],
         from_string |-> [i \in 1..Len(e.constants) |-> FromStringCase(tenum_name, e.constants[i], i)],
         unset |-> UnsetSentinel,
         errtext |-> <<"n", "o", "t", " ", "a", " ", "v", "a", "l", "i", "d", " ">> \o tenum_name
                     \o <<" ", "s", "t", "r", "i", "n", "g">>]

\* the emitted <Enum>FromString(s): the first case with the label s, else the
\* sentinel and an error
FromString(gen, s) ==
    LET hits == {i \in 1..Len(gen.from_string) :
                    \E k \in 1..Len(gen.from_string[i].labels) : gen.from_string[i].labels[k] = s}
    IN  IF hits = {} THEN [arg |-> s, value |-> gen.unset, err |-> gen.errtext]
        ELSE LET i == CHOOSE h \in hits : \A g \in hits : h <= g
             IN  [arg |-> s, value |-> gen.consts[gen.from_string[i].const].value, err |-> <<>>]

\* the enums that are generated
MaxConstants == 2

MaxEnumValue == 2

EnumNames == { <<"C", "o", "l", "o", "r">>, <<"c", "o", "l", "o", "r">>, <<"m", "y", "_", "e">> }

ConstantNames == { <<"R", "E", "D">>, <<"G", "R", "E", "E", "N">>, <<"B", "L", "U", "E">>, <<"b", "_", "x">> }

EnumConstants ==
    {TEnumValue(n, hv, v) : n \in ConstantNames, hv \in BOOLEAN, v \in 0..MaxEnumValue}

ConstantLists ==
    UNION {{cs \in [1..n -> {c \in EnumConstants : c.has_value \/ c.value = 0}] :
               \A i, j \in 1..n : i # j => cs[i].name # cs[j].name} : n \in 1..MaxConstants}

TEnums == {[name |-> n, constants |-> cs] : n \in EnumNames, cs \in ConstantLists}

\* the strings FromString is called with: the bare name and the prefixed
\* name of some constant name, or a string that names nothing
Candidates(e) ==
    ConstantNames
    \cup {publicize(e.name) \o <<"_">> \o n : n \in ConstantNames}
    \cup { <<"?">> }

----------------------------------------------------------------------------
(* Type expressions and type_to_go_type *)

\* A t_type with its parts: args is <<>> for a base type, <<elem>> for a list
\* or set, <<key, val>> for a map, <<type>> for a typedef of that type.
TypeExpr(kind, name, args) == [kind |-> kind, name |-> name, args |-> args]

I32T == TypeExpr("i32", <<>>, <<>>)

StringT == TypeExpr("string", <<>>, <<>>)

ListOf(e) == TypeExpr("list", <<>>, <<e>>)

SetOf(e) == TypeExpr("set", <<>>, <<e>>)

MapOf(k, v) == TypeExpr("map", <<>>, <<k, v>>)

TypedefOf(name, t) == TypeExpr("typedef", name, <<t>>)

RECURSIVE ResolveTypedef(_)
\* "while (resolved_type->is_typedef()) resolved_type = ...->get_type()"
ResolveTypedef(type) ==
    IF type.kind = "typedef" THEN ResolveTypedef(type.args[1]) ELSE type

\* a function of the generator returned text, or threw a message
Returned(text) == [ok |-> TRUE, text |-> text]

Thrown(text) == [ok |-> FALSE, text |-> text]

\* "Cannot produce a valid type for a Go map key: "
CannotProduce ==
    << "C", "a", "n", "n", "o", "t", " ", "p", "r", "o", "d", "u", "c", "e", " ", "a", " ",
       "v", "a", "l", "i", "d", " ", "t", "y", "p", "e", " ", "f", "o", "r", " ", "a", " ",
       "G", "o", " ", "m", "a", "p", " ", "k", "e", "y", ":", " " >>

RECURSIVE type_to_go_type(_)
RECURSIVE type_to_go_key_type(_)
\* mutant: the key type is tested without following typedefs
type_to_go_key_type_unresolved(type) ==
    IF type.kind \in {"map", "list", "set"}
    THEN LET g == type_to_go_type(type)
         IN  IF g.ok THEN Thrown(CannotProduce \o g.text \o <<" ", "-", " ", "a", "b", "o", "r", "t", "i", "n", "g", ".">>) ELSE g
    ELSE type_to_go_type(type)

\* t_go_generator::type_to_go_key_type; the thrown message is built from
\* type_to_go_type(type), which may itself throw
type_to_go_key_type(type) ==
    LET resolved_type == ResolveTypedef(type)
    IN  IF resolved_type.kind \in {"map", "list", "set"}
        THEN LET g == type_to_go_type(type)
             IN  IF g.ok THEN Thrown(CannotProduce \o g.text \o <<" ", "-", " ", "a", "b", "o", "r", "t", "i", "n", "g", ".">>) ELSE g
        ELSE type_to_go_type(type)

\* t_go_generator::type_to_go_type
type_to_go_type(type) ==
    CASE type.kind = "void" -> Thrown(<<>>)
      [] type.kind = "string" -> Returned(<<"s", "t", "r", "i", "n", "g">>)
      [] type.kind = "i32" -> Returned(<<"i", "n", "t", "3", "2">>)
      [] type.kind = "map" ->
            LET keyType == type_to_go_key_type(type.args[1])
            IN  IF ~keyType.ok THEN keyType
                ELSE LET valueType == type_to_go_type(type.args[2])
                     IN  IF ~valueType.ok THEN valueType
                         ELSE Returned(<<"m", "a", "p", "[">> \o keyType.text \o <<"]">> \o valueType.text)
      [] type.kind = "set" ->
            LET elemType == type_to_go_key_type(type.args[1])
            IN  IF ~elemType.ok THEN elemType
                ELSE Returned(<<"m", "a", "p", "[">> \o elemType.text \o <<"]", "b", "o", "o", "l">>)
      [] type.kind = "list" ->
            LET elemType == type_to_go_type(type.args[1])
            IN  IF ~elemType.ok THEN elemType
                ELSE Returned(<<"[", "]">> \o elemType.text)
      [] type.kind = "typedef" -> Returned(publicize(type.name))

\* the types that are mapped
TypedefExprs ==
    { TypedefOf(<<"m", "y", "_", "l">>, ListOf(I32T)),
      TypedefOf(<<"m", "y", "_", "i">>, I32T),
      TypedefOf(<<"a", "l">>, TypedefOf(<<"m", "y", "_", "l">>, ListOf(I32T))) }

BaseExprs == {I32T, StringT}

FlatExprs ==
    BaseExprs \cup TypedefExprs
    \cup {ListOf(e) : e \in BaseExprs} \cup {SetOf(e) : e \in BaseExprs}
    \cup {MapOf(k, v) : k \in BaseExprs, v \in BaseExprs}

NestedExprs ==
    FlatExprs
    \cup {ListOf(e) : e \in FlatExprs} \cup {SetOf(e) : e \in FlatExprs}
    \cup {MapOf(k, v) : k \in FlatExprs, v \in FlatExprs}

\* the map types handed to type_to_go_type
MapExprs ==
    {MapOf(k, v) : k \in FlatExprs, v \in NestedExprs}
    \cup {MapOf(k, v) : k \in NestedExprs, v \in BaseExprs}

----------------------------------------------------------------------------
(* generate_go_struct_definition: the text it appends to the output *)

VoidT == TypeExpr("void", <<>>, <<>>)

\* A t_field of a declaration whose type is a type expression.
DeclField(name, key, type, req, has_value) ==
    [name |-> name, key |-> key, type |-> type, req |-> req, has_value |-> has_value]

\* One piece of appended text: the place in the generated file it belongs to,
\* the Go identifier written there, the source field it is about and a number
\* (the key, or the position of an unused field).
Emit(site, ident, field, n) == [site |-> site, ident |-> ident, field |-> field, n |-> n]

NoField == <<>>

\* what a generating function leaves behind: the buffer, and whether it threw
Generated(out) == [ok |-> TRUE, out |-> out, text |-> <<>>]

Aborted(out, text) == [ok |-> FALSE, out |-> out, text |-> text]

\* mutant: no marker is written for a skipped key
unused_fields_none(from, to) == <<>>

\* "for (; sorted_keys_pos != key; sorted_keys_pos++) if (sorted_keys_pos != 0)
\*  out << "// unused field # " << sorted_keys_pos"
unused_fields(from, to) ==
    LET lo == IF from = 0 THEN 1 ELSE from
    IN  [i \in 1..(to - lo) |-> Emit("unused", <<>>, NoField, lo + i - 1)]

RECURSIVE sorted_fields(_, _, _, _)
\* the loop over sorted_members from its i-th member with sorted_keys_pos = pos
sorted_fields(out, sorted_members, i, pos) ==
    IF i > Len(sorted_members) THEN Generated(out)
    ELSE LET m == sorted_members[i]
             out1 == out \o unused_fields(pos, m.key)
             goType == type_to_go_type(m.type)
         IN  IF ~goType.ok THEN Aborted(out1, goType.text)
             ELSE sorted_fields(
                      out1 \o <<Emit("field", publicize(variable_name_to_go_name(m.name)),
                                     m.name, m.key)>>,
                      sorted_members, i + 1, m.key + 1)

\* the orders in which the operands of one "out << a << b << c" statement
\* may be evaluated
EvalOrders == {"calls_first", "left_to_right"}

RECURSIVE declared_fields(_, _, _, _)
\* the loop over members of a struct whose lowest key is negative; when
\* type_to_go_type throws, the name that stands left of it in the statement
\* has been written or not, depending on the order of evaluation
declared_fields(out, members, i, order) ==
    IF i > Len(members) THEN Generated(out)
    ELSE LET m == members[i]
             goType == type_to_go_type(m.type)
         IN  IF ~goType.ok
             THEN IF order = "left_to_right"
                  THEN Aborted(out \o <<Emit("partial", publicize(m.name), m.name, m.key)>>,
                               goType.text)
                  ELSE Aborted(out, goType.text)
             ELSE declared_fields(out \o <<Emit("field", publicize(m.name), m.name, m.key)>>,
                                  members, i + 1, order)

\* the part of generate_go_struct_definition that writes "func New<S>()":
\* a field is named there when it has a default value or is an enum
constructor_fields(members) ==
    LET named == SelectSeq(members,
                     LAMBDA m : m.has_value \/ ResolveTypedef(m.type).kind = "enum")
    IN  [i \in 1..Len(named) |->
            Emit("new", publicize(variable_name_to_go_name(escape_string(named[i].name))),
                 named[i].name, named[i].key)]

\* generate_isset_helpers: the IsSet<Field> methods
isset_helpers(fields) ==
    LET helped == SelectSeq(fields,
                     LAMBDA f : f.req = "optional" \/ ResolveTypedef(f.type).kind = "enum")
    IN  [i \in 1..Len(helped) |->
            Emit("isset", publicize(variable_name_to_go_name(escape_string(helped[i].name))),
                 helped[i].name, helped[i].key)]

\* generate_go_struct_reader: each readField method assigns to the field
\* that generate_deserialize_field names
reader_fields(fields) ==
    [i \in 1..Len(fields) |->
        Emit("read", publicize(variable_name_to_go_name(fields[i].name)),
             fields[i].name, fields[i].key)]

\* generate_go_struct_writer: each writeField method reads the field that
\* generate_serialize_field names
writer_fields(fields) ==
    [i \in 1..Len(fields) |->
        Emit("write", publicize(variable_name_to_go_name(fields[i].name)),
             fields[i].name, fields[i].key)]

\* t_go_generator::generate_go_struct_definition appending to the buffer out
generate_go_struct_definition(out, tstruct, order) ==
    LET members == tstruct.members
        sorted_members == SortByKey(tstruct.members)
        tstruct_name == publicize(tstruct.name)
        out1 == out \o <<Emit("type", tstruct_name, NoField, 0)>>
        body == IF sorted_members = <<>> \/ sorted_members[1].key >= 0
                THEN sorted_fields(out1, sorted_members, 1, 0)
                ELSE declared_fields(out1, members, 1, order)
    IN  IF ~body.ok THEN body
        ELSE Generated(body.out \o <<Emit("end", tstruct_name, NoField, 0)>>
                           \o constructor_fields(members)
                           \o isset_helpers(members)
                           \o reader_fields(members)
                           \o writer_fields(sorted_members))

\* t_go_generator::generate_go_struct: the definition goes to f_types_
generate_go_struct(f_types_, tstruct, order) ==
    generate_go_struct_definition(f_types_, tstruct, order)

\* the declarations that are generated: one or two fields with different
\* names and keys, keys from KeyMin to MaxDeclKey
MaxDeclKey == 3

DeclKeys == KeyMin..MaxDeclKey

DeclNames == {<<"t", "y", "p", "e">>, <<"a", "_", "b">>, <<"x">>}

DeclTypes == {I32T, VoidT, MapOf(ListOf(I32T), I32T)}

DeclFields ==
    {DeclField(n, k, t, r[1], r[2]) :
        n \in DeclNames, k \in DeclKeys, t \in DeclTypes,
        r \in {<<"required", FALSE>>, <<"optional", FALSE>>, <<"optional", TRUE>>}}

DeclMembers ==
    {<<>>}
    \cup {<<f>> : f \in DeclFields}
    \cup {fg \in DeclFields \X DeclFields : fg[1].name # fg[2].name /\ fg[1].key # fg[2].key}

DeclStructs == {[name |-> <<"s">>, members |-> ms] : ms \in DeclMembers}

\* f_types_ before the declaration is generated
EmptyBuffer == <<>>

----------------------------------------------------------------------------
(* generate_service_remote and the emitted main() of the remote program *)

\* A t_function of the service as the remote program sees it: its name and
\* the number of its arguments (all of type i32).
RemoteFunction(name, num_args) == [name |-> name, num_args |-> num_args]

\* how the process ended: whether Usage() printed, the exit status and the
\* client method that was called (<<>> for none)
Exited(usage, status, called) == [usage |-> usage, status |-> status, called |-> called]

\* t_go_generator::generate_service_remote: the emitted program, as the
\* status Usage() exits with, the cases of "switch cmd" in their order, and
\* what the cases "" and default do
generate_service_remote(functions) ==
    [usage_exit |-> 0,
     cases |-> [i \in 1..Len(functions) |->
                   [label |-> escape_string(functions[i].name),
                    num_args |-> functions[i].num_args,
                    pubName |-> functions[i].name]],
     empty_case |-> "Usage",
     default_case |-> "Invalid function"]

\* the emitted "func Usage()": prints and calls os.Exit
Usage(remote) == Exited(TRUE, remote.usage_exit, <<>>)

\* flag.Arg(i): the i-th argument after the flags, the empty string when
\* there is none
flag_Arg(argv, i) == IF i + 1 <= Len(argv) THEN argv[i + 1] ELSE <<>>

\* strconv.Atoi succeeds on this argument
Parses(token) == token \in {<<"0">>, <<"1">>}

\* the emitted "func main()" run with the arguments argv that follow the
\* flags; opens says whether trans.Open() succeeds
main(remote, argv, opens) ==
    LET cmd == flag_Arg(argv, 0)
        NArg == Len(argv)
        hit == {i \in 1..Len(remote.cases) : remote.cases[i].label = cmd}
    IN  IF ~opens THEN Exited(FALSE, 1, <<>>)
        ELSE IF hit # {}
        THEN LET c == remote.cases[CHOOSE i \in hit : \A j \in hit : i <= j]
             IN  IF NArg - 1 # c.num_args THEN Usage(remote)
                 ELSE IF \E i \in 1..c.num_args : ~Parses(flag_Arg(argv, i))
                 THEN Usage(remote)
                 ELSE Exited(FALSE, 0, c.pubName)
        ELSE IF cmd = <<>> THEN Usage(remote)
        ELSE Exited(FALSE, 0, <<>>)

\* the services and command lines the remote program is run with
MaxArity == 2

RemoteTokens == {<<"a">>, <<"b">>, <<"z">>, <<"1">>}

RemoteServices ==
    {<<RemoteFunction(<<"a">>, m), RemoteFunction(<<"b">>, n)>> : m \in 0..MaxArity, n \in 0..MaxArity}

RemoteRuns ==
    {[functions |-> fs, argv |-> av, opens |-> o] :
        fs \in RemoteServices,
        av \in UNION {[1..k -> RemoteTokens] : k \in 0..(MaxArity + 1)},
        o \in BOOLEAN}

----------------------------------------------------------------------------
(* The state of a part of the program that a behaviour does not exercise *)

NoCode == [generated |-> FALSE, compiles |-> FALSE,
           reader |-> generate_go_struct_reader(InnerStruct),
           writer |-> generate_go_struct_writer(InnerStruct, FALSE)]

CodecIdle ==
    /\ schema = InnerStruct
    /\ code = NoCode
    /\ kpc = "idle"
    /\ rec = <<>>
    /\ assigned = 0
    /\ wire = <<>>
    /\ werr = FALSE
    /\ wtrace = <<>>
    /\ rec2 = <<>>
    /\ rerr = FALSE
    /\ rtrace = <<>>
    /\ rin = <<>>

NoRequest == [name |-> "", seqId |-> 0]

NoProcessor == [built |-> FALSE, listener |-> FALSE, map |-> [n \in RequestNames |-> NoEntry]]

ServerIdle ==
    /\ svc = [depth |-> 1, level |-> [n \in FunctionNames |-> 0],
              attrs |-> [oneway |-> FALSE, void |-> FALSE, nx |-> 0]]
    /\ proc = NoProcessor
    /\ sreq = NoRequest
    /\ strace = <<>>
    /\ sret = [success |-> FALSE, err |-> "nil"]

Callers == {"A", "B"}

ClientIdle ==
    /\ cfn = TFunction("f1", FALSE, FALSE, 0)
    /\ cseq = 0
    /\ cpc = [c \in Callers |-> "idle"]
    /\ cret = [c \in Callers |-> "nil"]
    /\ ctrace = [c \in Callers |-> <<>>]
    /\ reqs = <<>>
    /\ inbox = <<>>

NoEnumCode == [generated |-> FALSE]

NoEnumCall == [arg |-> <<>>, value |-> 0, err |-> <<>>]

EnumIdle ==
    /\ tenum = [name |-> <<"C">>, constants |-> <<>>]
    /\ ecode = NoEnumCode
    /\ ecall = NoEnumCall

NoResult == <<>>

CallIdle ==
    /\ arg = <<>>
    /\ res = NoResult

----------------------------------------------------------------------------
(* Codec behaviours *)

CodecInit ==
    /\ mode = "codec"
    /\ ServerIdle
    /\ ClientIdle
    /\ EnumIdle
    /\ CallIdle
    /\ schema \in Schemas
    /\ code = NoCode
    /\ kpc = "idle"
    /\ rec = <<>>
    /\ assigned = 0
    /\ wire = <<>>
    /\ werr = FALSE
    /\ wtrace = <<>>
    /\ rec2 = <<>>
    /\ rerr = FALSE
    /\ rtrace = <<>>
    /\ rin = <<>>

\* generate_go_struct_definition runs on the struct
GenerateStruct ==
    /\ mode = "codec" /\ kpc = "idle"
    /\ code' = [generated |-> TRUE, compiles |-> Compiles(schema),
                reader |-> generate_go_struct_reader(schema),
                writer |-> generate_go_struct_writer(schema, schema.is_result)]
    /\ kpc' = "generated"
    /\ UNCHANGED <<callVars, serverVars, clientVars, enumVars, mode, schema, rec, wire, werr, wtrace, rec2, rerr, rtrace, rin, assigned>>

\* the program calls New<Struct>()
Construct ==
    /\ mode = "codec" /\ kpc = "generated" /\ code.compiles
    /\ rec' = NewStruct(schema)
    /\ assigned' = 0
    /\ kpc' = "built"
    /\ UNCHANGED <<callVars, serverVars, clientVars, enumVars, mode, schema, code, wire, werr, wtrace, rec2, rerr, rtrace, rin>>

\* the program assigns a field of the record
Assign ==
    /\ mode = "codec" /\ kpc = "built"
    /\ \E i \in 1..Len(schema.members) :
         \E v \in ValuesOf(get_true_type(schema.members[i].type)) :
            /\ rec' = [rec EXCEPT ![i] = v]
            /\ assigned' = i
    /\ UNCHANGED <<callVars, serverVars, clientVars, enumVars, mode, schema, code, kpc, wire, werr, wtrace, rec2, rerr, rtrace, rin>>

\* the program calls rec.Write(oprot); the failAt-th protocol call fails
DoWrite ==
    /\ mode = "codec" /\ kpc = "built"
    /\ \E failAt \in 0..MaxFailAt :
         LET o == Write(schema, rec, failAt)
         IN  /\ wire' = o.tokens
             /\ werr' = o.err
             /\ wtrace' = o.called
    /\ kpc' = "written"
    /\ UNCHANGED <<callVars, serverVars, clientVars, enumVars, mode, schema, code, rec, rec2, rerr, rtrace, rin, assigned>>

\* the program reads what was written into a record made by New<Struct>()
DoRead ==
    /\ mode = "codec" /\ kpc = "written" /\ ~werr
    /\ LET o == Read(schema, NewStruct(schema), wire, 1)
       IN  /\ rec2' = o.rec
           /\ rerr' = o.err
           /\ rtrace' = o.trace
    /\ rin' = wire
    /\ kpc' = "read"
    /\ UNCHANGED <<callVars, serverVars, clientVars, enumVars, mode, schema, code, rec, wire, werr, wtrace, assigned>>

\* the program reads a struct sent by a peer whose IDL has other fields
ReadPeer ==
    /\ mode = "codec" /\ kpc = "generated" /\ code.compiles
    /\ \E toks \in PeerWires(schema) :
         LET o == Read(schema, NewStruct(schema), toks, 1)
         IN  /\ rec2' = o.rec
             /\ rerr' = o.err
             /\ rtrace' = o.trace
             /\ rin' = toks
    /\ kpc' = "peer_read"
    /\ UNCHANGED <<callVars, serverVars, clientVars, enumVars, mode, schema, code, rec, wire, werr, wtrace, assigned>>

CodecNext == GenerateStruct \/ Construct \/ Assign \/ DoWrite \/ DoRead \/ ReadPeer

SpecCodec == CodecInit /\ [][CodecNext]_vars

----------------------------------------------------------------------------
(* Server behaviours *)

ServerInit ==
    /\ mode = "server"
    /\ CodecIdle
    /\ ClientIdle
    /\ EnumIdle
    /\ CallIdle
    /\ svc \in {c \in ServiceChains : WellFormedChain(c)}
    /\ proc = NoProcessor
    /\ sreq = NoRequest
    /\ strace = <<>>
    /\ sret = [success |-> FALSE, err |-> "nil"]

\* the server program calls New<Service>Processor(handler, listener)
NewProcessor ==
    /\ mode = "server" /\ ~proc.built
    /\ \E listener \in BOOLEAN :
         proc' = [built |-> TRUE, listener |-> listener, map |-> NewProcessorMap(svc, svc.depth)]
    /\ UNCHANGED <<callVars, clientVars, enumVars, mode, codecVars, svc, sreq, strace, sret>>

\* the server calls processor.Receive(request) for an incoming message (the
\* processor keeps no state between requests, so one request is followed)
ReceiveRequest ==
    /\ mode = "server" /\ proc.built /\ sreq = NoRequest
    /\ \E name \in RequestNames, seqId \in 1..MaxSeqId, readfail \in BOOLEAN,
          outcome \in HandlerOutcomes, outfail \in OutFailures :
         /\ (outcome = "declared" /\ name \in FunctionNames) => get_function(svc, name).nx > 0
         /\ LET req == [name |-> name, seqId |-> seqId]
                o == Receive(svc, proc.map, req, proc.listener, readfail, outcome, outfail)
            IN  /\ sreq' = req
                /\ strace' = o.trace
                /\ sret' = [success |-> o.success, err |-> o.err]
    /\ UNCHANGED <<callVars, clientVars, enumVars, mode, codecVars, svc, proc>>

ServerNext == NewProcessor \/ ReceiveRequest

SpecServer == ServerInit /\ [][ServerNext]_vars

----------------------------------------------------------------------------
(* Client behaviours: two callers share one generated client *)

ClientInit ==
    /\ mode = "client"
    /\ CodecIdle
    /\ ServerIdle
    /\ EnumIdle
    /\ CallIdle
    /\ cfn \in ClientFunctions
    /\ cseq = 0
    /\ cpc = [c \in Callers |-> "idle"]
    /\ cret = [c \in Callers |-> "nil"]
    /\ ctrace = [c \in Callers |-> <<>>]
    /\ reqs = <<>>
    /\ inbox = <<>>

\* a caller enters the public method, which runs send<Name>; the method returns
\* when send fails or the function is one-way, else it goes on to recv<Name>
ClientSend(c) ==
    /\ mode = "client" /\ cpc[c] = "idle" /\ cseq < MaxSeqId
    /\ \E outfail \in OutFailures :
         LET o == send(cfn, cseq, outfail)
         IN  /\ cseq' = o.seqId
             /\ ctrace' = [ctrace EXCEPT ![c] = o.trace]
             /\ cret' = [cret EXCEPT ![c] = o.err]
             /\ cpc' = [cpc EXCEPT ![c] = IF o.err # "nil" \/ ~CallsRecv(cfn) THEN "done" ELSE "sent"]
             /\ reqs' = IF outfail = "none"
                        THEN Append(reqs, [name |-> cfn.name, seqId |-> o.seqId])
                        ELSE reqs
    /\ UNCHANGED <<callVars, enumVars, mode, codecVars, serverVars, cfn, inbox>>

\* the public method of a caller runs recv<Name> on the bytes that arrived
ClientRecv(c) ==
    /\ mode = "client" /\ cpc[c] = "sent" /\ inbox # <<>>
    /\ \E infail \in InFailures :
         LET o == recv(cfn, cseq, inbox, infail)
         IN  /\ ctrace' = [ctrace EXCEPT ![c] = ctrace[c] \o o.trace]
             /\ cret' = [cret EXCEPT ![c] = o.err]
             /\ inbox' = o.rest
    /\ cpc' = [cpc EXCEPT ![c] = "done"]
    /\ UNCHANGED <<callVars, enumVars, mode, codecVars, serverVars, cfn, cseq, reqs>>

ApplicationExceptionKinds == {"INTERNAL_ERROR", "PROTOCOL_ERROR"}

\* the peer answers the oldest request with a message of any type and
\* sequence id
PeerReply ==
    /\ mode = "client" /\ reqs # <<>>
    /\ \E mtype \in {"REPLY", "EXCEPTION"}, seqid \in 1..MaxSeqId :
         \E kind \in (IF mtype = "REPLY" THEN {"result"} ELSE ApplicationExceptionKinds) :
            inbox' = inbox \o Message(mtype, seqid, kind)
    /\ reqs' = Tail(reqs)
    /\ UNCHANGED <<callVars, enumVars, mode, codecVars, serverVars, cfn, cseq, cpc, cret, ctrace>>

ClientNext == (\E c \in Callers : ClientSend(c)) \/ (\E c \in Callers : ClientRecv(c)) \/ PeerReply

SpecClient == ClientInit /\ [][ClientNext]_vars

----------------------------------------------------------------------------
(* Enum behaviours *)

EnumInit ==
    /\ mode = "enum"
    /\ CodecIdle
    /\ ServerIdle
    /\ ClientIdle
    /\ CallIdle
    /\ tenum \in TEnums
    /\ ecode = NoEnumCode
    /\ ecall = NoEnumCall

\* the compiler runs generate_enum on the declaration
GenerateEnum ==
    /\ mode = "enum" /\ ~ecode.generated
    /\ ecode' = generate_enum(tenum)
    /\ UNCHANGED <<callVars, mode, codecVars, serverVars, clientVars, tenum, ecall>>

\* the program calls <Enum>FromString(s)
CallFromString ==
    /\ mode = "enum" /\ ecode.generated
    /\ \E s \in Candidates(tenum) : ecall' = FromString(ecode, s)
    /\ UNCHANGED <<callVars, mode, codecVars, serverVars, clientVars, tenum, ecode>>

EnumNext == GenerateEnum \/ CallFromString

SpecEnum == EnumInit /\ [][EnumNext]_vars

----------------------------------------------------------------------------
(* Type mapping behaviours *)

TypesInit ==
    /\ mode = "types"
    /\ CodecIdle
    /\ ServerIdle
    /\ ClientIdle
    /\ EnumIdle
    /\ arg \in MapExprs
    /\ res = NoResult

\* the generator maps the type to a Go type expression
MapType ==
    /\ mode = "types" /\ res = NoResult
    /\ res' = type_to_go_type(arg)
    /\ UNCHANGED <<mode, codecVars, serverVars, clientVars, enumVars, arg>>

TypesNext == MapType

SpecTypes == TypesInit /\ [][TypesNext]_vars

----------------------------------------------------------------------------
(* Naming behaviours *)

NamesInit ==
    /\ mode = "names"
    /\ CodecIdle
    /\ ServerIdle
    /\ ClientIdle
    /\ EnumIdle
    /\ arg \in Names
    /\ res = NoResult

\* the generator makes the exported Go name of a name
Publicize ==
    /\ mode = "names" /\ res = NoResult
    /\ res' = [fn |-> "publicize", out |-> publicize(arg), private |-> <<>>]
    /\ UNCHANGED <<mode, codecVars, serverVars, clientVars, enumVars, arg>>

\* the generator makes a name safe and then its unexported Go name
KeywordSafe ==
    /\ mode = "names" /\ res = NoResult
    /\ res' = [fn |-> "variable_name_to_go_name", out |-> variable_name_to_go_name(arg),
               private |-> privatize(variable_name_to_go_name(arg))]
    /\ UNCHANGED <<mode, codecVars, serverVars, clientVars, enumVars, arg>>

NamesNext == Publicize \/ KeywordSafe

SpecNames == NamesInit /\ [][NamesNext]_vars

----------------------------------------------------------------------------
(* Declaration behaviours *)

DeclInit ==
    /\ mode = "decl"
    /\ CodecIdle
    /\ ServerIdle
    /\ ClientIdle
    /\ EnumIdle
    /\ arg \in DeclStructs
    /\ res = NoResult

\* the generator is handed the struct of the program
GenerateDeclaration ==
    /\ mode = "decl" /\ res = NoResult
    /\ \E order \in EvalOrders : res' = generate_go_struct(EmptyBuffer, arg, order)
    /\ UNCHANGED <<mode, codecVars, serverVars, clientVars, enumVars, arg>>

DeclNext == GenerateDeclaration

SpecDecl == DeclInit /\ [][DeclNext]_vars

----------------------------------------------------------------------------
(* Remote program behaviours *)

RemoteInit ==
    /\ mode = "remote"
    /\ CodecIdle
    /\ ServerIdle
    /\ ClientIdle
    /\ EnumIdle
    /\ arg \in RemoteRuns
    /\ res = NoResult

\* the generated remote program is run from the command line
RunRemote ==
    /\ mode = "remote" /\ res = NoResult
    /\ res' = main(generate_service_remote(arg.functions), arg.argv, arg.opens)
    /\ UNCHANGED <<mode, codecVars, serverVars, clientVars, enumVars, arg>>

RemoteNext == RunRemote

SpecRemote == RemoteInit /\ [][RemoteNext]_vars

----------------------------------------------------------------------------
(* Reading a token stream back as field headers *)

\* struct nesting depth of the token at position q
Depth(toks, q) ==
    Cardinality({p \in 1..(q - 1) : toks[p].op = "StructBegin"})
    - Cardinality({p \in 1..(q - 1) : toks[p].op = "StructEnd"})

\* positions of the field headers of the outermost struct, in order
TopHeaders(toks) ==
    SortedSeq({q \in 1..Len(toks) : toks[q].op = "FieldBegin" /\ Depth(toks, q) = 1})

KeysOf(tstruct) == {tstruct.members[i].key : i \in 1..Len(tstruct.members)}

\* members of r that hold a value (a non-nil pointer, or any scalar)
Populated(r) == {i \in 1..Len(r) : ~r[i].nil}

----------------------------------------------------------------------------
(* Claims about the struct codec *)

\* C2: the Write of a function's Result struct calls at most one per-field
\* writer, whatever subset of its fields is populated, so at most one field
\* stands between struct-begin and field-stop.
C2_ResultWritesAtMostOneField ==
    (kpc = "written" /\ schema.is_result) =>
        /\ Len(wtrace) <= 1
        /\ Len(TopHeaders(wire)) <= 1

\* C2 witness: a Result struct with success and an exception both populated
\* has been written without error, and one writer ran.
C2_Witness ==
    /\ kpc = "written" /\ schema.is_result /\ ~werr
    /\ Cardinality(Populated(rec)) >= 2
    /\ Len(wtrace) = 1
    /\ Len(TopHeaders(wire)) = 1

\* C3: writing a record and reading the output into a fresh record gives a
\* record equal to the written one, field for field.
C3_RoundTrip ==
    kpc = "read" => (~rerr /\ rec2 = rec)

\* C4: a field header whose id is not a field key of the struct is skipped
\* with the header's wire type, Read returns no error, and every header of
\* the stream is handled.
C4_UnknownFieldSkipped ==
    kpc = "peer_read" =>
        LET hs == TopHeaders(rin)
        IN  /\ Len(rtrace) = Len(hs)
            /\ \A j \in 1..Len(hs) :
                  (j <= Len(rtrace) /\ rin[hs[j]].id \notin KeysOf(schema)) =>
                      /\ rtrace[j].act = "skip"
                      /\ rtrace[j].ttype = rin[hs[j]].ttype
            /\ ~rerr

----------------------------------------------------------------------------
(* Claims about the service processor *)

\* a trace without the marks of which calls failed
Calls(trace) == [i \in 1..Len(trace) |-> [trace[i] EXCEPT !.failed = FALSE]]

IsOutCall(e) == e.ev \in {"WriteMessageBegin", "x.Write", "result.Write", "WriteMessageEnd", "Flush"}

\* the calls made on the output protocol
OutputCalls(trace) == Calls(SelectSeq(trace, IsOutCall))

HasEvent(trace, ev) == \E i \in 1..Len(trace) : trace[i].ev = ev

\* the one EXCEPTION message of the given kind, followed by a flush
ExceptionMessage(name, seqId, kind) ==
    << Ev("WriteMessageBegin", name, "EXCEPTION", seqId, "", FALSE),
       Ev("x.Write", "", "", 0, kind, FALSE),
       Ev("WriteMessageEnd", "", "", 0, "", FALSE),
       Ev("Flush", "", "", 0, "", FALSE) >>

\* the request was dispatched to the Process of a function
Dispatched == sreq # NoRequest /\ proc.map[sreq.name].present

HandlerFaulted ==
    \E i \in 1..Len(strace) : strace[i].ev = "handler" /\ strace[i].kind \in {"error", "panic"}

ArgsReadFailed == Len(strace) > 0 /\ strace[1].ev = "args.Read" /\ strace[1].failed

\* C5: when the handler panics or returns an error, Process returns normally
\* without an error, having written exactly one EXCEPTION message that carries
\* INTERNAL_ERROR and the request's sequence id, then a flush, and no REPLY.
C5_HandlerFaultBecomesInternalError ==
    (Dispatched /\ HandlerFaulted) =>
        /\ OutputCalls(strace) = ExceptionMessage(sreq.name, sreq.seqId, "INTERNAL_ERROR")
        /\ \A i \in 1..Len(strace) : strace[i].mtype # "REPLY"
        /\ sret = [success |-> FALSE, err |-> "nil"]

\* C5 witness: a handler panicked while serving a request.
C5_Witness ==
    /\ Dispatched
    /\ \E i \in 1..Len(strace) : strace[i].ev = "handler" /\ strace[i].kind = "panic"
    /\ HasEvent(strace, "Flush")

\* C6: when reading the Args struct fails, Process writes one EXCEPTION message
\* that carries PROTOCOL_ERROR and the request's sequence id, flushes, returns
\* success false with the read error, and calls neither handler nor listener.
C6_ArgsReadErrorBecomesProtocolError ==
    (Dispatched /\ ArgsReadFailed) =>
        /\ OutputCalls(strace) = ExceptionMessage(sreq.name, sreq.seqId, "PROTOCOL_ERROR")
        /\ sret = [success |-> FALSE, err |-> "read_error"]
        /\ \A i \in 1..Len(strace) :
              strace[i].ev \notin {"handler", "PreHandle", "PostHandle", "Completed"}

\* C6 witness: the Args read failed in a processor that has a listener.
C6_Witness ==
    /\ Dispatched /\ ArgsReadFailed /\ proc.listener
    /\ HasEvent(strace, "Flush")

\* the method name is a function of the served service or of an ancestor
DeclaredInChain(c, name) == \E d \in 1..c.depth : name \in get_functions(c, d)

\* C7: Receive answers UNKNOWN_METHOD (argument struct skipped, one EXCEPTION
\* message with the request's name and sequence id, flush, no handler call,
\* success false) exactly when the name is not a function of the service or
\* of an ancestor; otherwise it runs that function's Process.
C7_UnknownMethodExactlyWhenUndeclared ==
    sreq # NoRequest =>
        IF DeclaredInChain(svc, sreq.name)
        THEN /\ strace[1].ev = "args.Read"
             /\ \A i \in 1..Len(strace) : strace[i].kind # "UNKNOWN_METHOD"
        ELSE /\ Calls(strace) =
                   << Ev("iprot.Skip", "", "STRUCT", 0, "", FALSE), Call("iprot.ReadMessageEnd") >>
                   \o ExceptionMessage(sreq.name, sreq.seqId, "UNKNOWN_METHOD")
             /\ sret = [success |-> FALSE, err |-> "unknown_method"]

\* C7 witness: a derived service served a function that its parent declares.
C7_Witness ==
    /\ sreq # NoRequest /\ svc.depth >= 2
    /\ sreq.name \in FunctionNames
    /\ svc.level[sreq.name] = 1
    /\ Len(strace) > 0
    /\ strace[1].ev = "args.Read"
    /\ HasEvent(strace, "handler")

\* the served function of the request
ServedFunction == get_function(svc, sreq.name)

HandlerReturned(outcome) ==
    \E i \in 1..Len(strace) : strace[i].ev = "handler" /\ strace[i].kind = outcome

\* C1: for a one-way function, Process calls the handler and then writes no
\* message to the output protocol.
C1_OnewayProcessWritesNoReply ==
    (Dispatched /\ ServedFunction.oneway /\ HandlerReturned("ok")) =>
        \A i \in 1..Len(strace) : ~IsOutCall(strace[i])

----------------------------------------------------------------------------
(* Claims about the service client *)

\* the calls recv<Name> made for caller c, empty when it was not called
RecvCalls(c) ==
    IF \E i \in 1..Len(ctrace[c]) : ctrace[c][i].ev = "recv"
    THEN SubSeq(ctrace[c], CHOOSE i \in 1..Len(ctrace[c]) : ctrace[c][i].ev = "recv", Len(ctrace[c]))
    ELSE <<>>

\* recv<Name> of caller c returned after ReadMessageBegin gave it a header
RecvGotHeader(c) ==
    /\ cpc[c] = "done" /\ Len(RecvCalls(c)) >= 2
    /\ ~RecvCalls(c)[2].failed

\* the public method of a one-way function never calls recv<Name>
\* (lines 1638-1644)
OnewayClientNeverReceives ==
    cfn.oneway => \A c \in Callers : RecvCalls(c) = <<>>

\* C8: recv<Name> first looks at the message type: an EXCEPTION message is
\* decoded and returned as the application exception whatever its sequence
\* id; otherwise a sequence id other than the client's SeqId gives
\* BAD_SEQUENCE_ID and the Result struct is not read; only otherwise is the
\* Result struct read.
C8_RecvCheckOrder ==
    \A c \in Callers :
        RecvGotHeader(c) =>
            LET t == RecvCalls(c)
                h == t[2]
            IN  IF h.mtype = "EXCEPTION"
                THEN /\ Len(t) >= 3 /\ t[3].ev = "error.Read"
                     /\ ~HasEvent(t, "result.Read")
                     /\ (\A i \in 1..Len(t) : ~t[i].failed) => cret[c] = "application_exception"
                     /\ cret[c] # "BAD_SEQUENCE_ID"
                ELSE IF h.seqid # t[1].seqid
                THEN /\ cret[c] = "BAD_SEQUENCE_ID"
                     /\ ~HasEvent(t, "result.Read") /\ ~HasEvent(t, "error.Read")
                ELSE /\ Len(t) >= 3 /\ t[3].ev = "result.Read"
                     /\ cret[c] # "BAD_SEQUENCE_ID"

\* C8 witness: an EXCEPTION message whose sequence id is not the client's
\* SeqId was decoded and returned as the application exception.
C8_Witness ==
    \E c \in Callers :
        /\ RecvGotHeader(c)
        /\ RecvCalls(c)[2].mtype = "EXCEPTION"
        /\ RecvCalls(c)[2].seqid # RecvCalls(c)[1].seqid
        /\ cret[c] = "application_exception"

\* C9: when a call on the output or input protocol fails inside send<Name> or
\* recv<Name>, the public method returns a non-nil error.
C9_WireFailureIsReturned ==
    \A c \in Callers :
        (cpc[c] = "done" /\ \E i \in 1..Len(ctrace[c]) : ctrace[c][i].failed) =>
            cret[c] # "nil"

----------------------------------------------------------------------------
(* Claims about enums *)

\* C10: <Enum>FromString called with the bare declared name of a constant
\* returns the value of that constant and no error.
C10_FromStringBareName ==
    \A i \in 1..Len(tenum.constants) :
        (ecode.generated /\ ecall # NoEnumCall /\ ecall.arg = tenum.constants[i].name) =>
            /\ ecall.err = <<>>
            /\ ecall.value = ecode.consts[i].value

\* text sub occurs in text s
Carries(s, sub) == \E i \in 0..(Len(s) - Len(sub)) : SubSeq(s, i + 1, i + Len(sub)) = sub

\* the string matches no case label that generate_enum emitted
MatchesNoConstant(s) ==
    \A i \in 1..Len(tenum.constants) :
        /\ s # tenum.constants[i].name
        /\ s # publicize(tenum.name) \o <<"_">> \o tenum.constants[i].name

\* C11: <Enum>FromString called with a string that matches no declared
\* constant returns an error whose text carries the string it was given.
C11_FromStringErrorCarriesCandidate ==
    (ecode.generated /\ ecall # NoEnumCall /\ MatchesNoConstant(ecall.arg)) =>
        /\ ecall.err # <<>>
        /\ Carries(ecall.err, ecall.arg)

\* a declared value of the field's type: the sentinel is no enum constant
DeclaredValue(v) == v # IntV(UnsetSentinel)

\* C12: after an optional or enum-typed field was assigned a value of its
\* type, the IsSet method of the field returns true.
C12_AssignedFieldIsSet ==
    (kpc = "built" /\ assigned # 0) =>
        LET f == schema.members[assigned]
        IN  (HasIsSetHelper(f) /\ DeclaredValue(rec[assigned])) => IsSet(f, rec[assigned])

\* C13: in a record just made by New<Struct>, IsSet is false for every
\* optional or enum-typed field that declares no default value.
C13_FreshRecordIsUnset ==
    (kpc = "built" /\ assigned = 0) =>
        \A i \in 1..Len(schema.members) :
            (HasIsSetHelper(schema.members[i]) /\ ~schema.members[i].has_value) =>
                ~IsSet(schema.members[i], rec[i])

\* C13 witness: a record with an enum-typed field without default was made
\* and the field holds the sentinel.
C13_Witness ==
    /\ kpc = "built" /\ assigned = 0
    /\ \E i \in 1..Len(schema.members) :
          /\ get_true_type(schema.members[i].type).kind = "enum"
          /\ ~schema.members[i].has_value
          /\ rec[i] = IntV(UnsetSentinel)

----------------------------------------------------------------------------
(* Claims about type mapping *)

RECURSIVE SubTypes(_)
\* the type expressions type_to_go_type descends into: a typedef is mapped
\* to its name and not entered
SubTypes(t) ==
    {t} \cup (IF t.kind = "typedef" THEN {}
              ELSE UNION {SubTypes(t.args[i]) : i \in 1..Len(t.args)})

IsContainerType(t) == ResolveTypedef(t).kind \in {"list", "set", "map"}

\* key types of the maps in t that are a list, set or map after typedefs
BadMapKeys(t) == {m.args[1] : m \in {x \in SubTypes(t) : x.kind = "map"}} \cap {k \in SubTypes(t) : IsContainerType(k)}

\* likewise the element types of the sets in t, which become Go map keys
BadSetElems(t) == {m.args[1] : m \in {x \in SubTypes(t) : x.kind = "set"}} \cap {k \in SubTypes(t) : IsContainerType(k)}

\* the thrown message names key type k
NamesKey(msg, k) == type_to_go_type(k).ok /\ Carries(msg, CannotProduce \o type_to_go_type(k).text)

Mapped == mode = "types" /\ res # NoResult

\* C14 as stated: mapping a map type fails, with an error naming the key
\* type, exactly when the key type of a map at some depth is a list, set or
\* map after typedefs.
C14_MapKeyRejectedExactly ==
    Mapped =>
        /\ res.ok <=> BadMapKeys(arg) = {}
        /\ ~res.ok => \E k \in BadMapKeys(arg) : NamesKey(res.text, k)

\* C14 amended: mapping a map type fails, with an error naming the offending
\* type, exactly when the key type of a map or the element type of a set at
\* some depth is a list, set or map after typedefs.
C14_GoMapKeyRejectedExactly ==
    Mapped =>
        /\ res.ok <=> (BadMapKeys(arg) \cup BadSetElems(arg)) = {}
        /\ ~res.ok => \E k \in BadMapKeys(arg) \cup BadSetElems(arg) : NamesKey(res.text, k)

\* C14 witness: a map whose key is a typedef of a list was rejected with an
\* error naming the typedef.
C14_Witness ==
    /\ Mapped /\ ~res.ok
    /\ arg.args[1].kind = "typedef"
    /\ NamesKey(res.text, arg.args[1])

----------------------------------------------------------------------------
(* Claims about names *)

Applied(fn) == mode = "names" /\ res # NoResult /\ res.fn = fn

RECURSIVE OnePass(_)
\* one left-to-right pass that deletes each underscore followed by a
\* lowercase letter and capitalizes that letter
OnePass(seg) ==
    IF seg = <<>> THEN <<>>
    ELSE IF Len(seg) >= 2 /\ seg[1] = "_" /\ islower(seg[2])
    THEN <<toupper(seg[2])>> \o OnePass(SubSeq(seg, 3, Len(seg)))
    ELSE <<seg[1]>> \o OnePass(Tail(seg))

\* C16: publicize returns the prefix up to the last dot unchanged, followed
\* by the last segment with its first letter capitalized and every
\* underscore that is followed by a lowercase letter deleted and that letter
\* capitalized, wherever the underscore stands in the segment.
C16_PublicizeOnePass ==
    Applied("publicize") =>
        LET dot == rfind_dot(arg)
            seg == SubSeq(arg, dot + 1, Len(arg))
        IN  res.out = SubSeq(arg, 1, dot) \o OnePass(<<toupper(seg[1])>> \o Tail(seg))

LowerCase(name) == [i \in 1..Len(name) |-> tolower(name[i])]

\* C17: variable_name_to_go_name returns the name unchanged unless its
\* lowercase form is a reserved word, and then a name with a suffix; neither
\* the result nor its privatize form is a reserved word.
C17_KeywordSafe ==
    Applied("variable_name_to_go_name") =>
        /\ LowerCase(arg) \notin ReservedWords => res.out = arg
        /\ LowerCase(arg) \in ReservedWords =>
              /\ Len(res.out) > Len(arg)
              /\ LowerCase(SubSeq(res.out, 1, Len(arg))) = LowerCase(arg)
        /\ res.out \notin ReservedWords
        /\ res.private \notin ReservedWords

\* C17 witness: the name Type was made safe and then private.
C17_Witness ==
    /\ Applied("variable_name_to_go_name")
    /\ arg = <<"T", "y", "p", "e">>
    /\ res.out # arg
    /\ res.private = <<"t", "y", "p", "e", "A", "1">>

----------------------------------------------------------------------------
(* Claims about declarations *)

Declared == mode = "decl" /\ res # NoResult

\* C15: when generating a declaration throws, the output buffer is exactly
\* as it was before the declaration was started.
C15_NoPartialDeclaration ==
    (Declared /\ ~res.ok) => res.out = EmptyBuffer

\* the text between "type S struct {" and "}"
TypeBody(out) ==
    LET last == CHOOSE p \in 1..Len(out) : out[p].site = "end"
    IN  SubSeq(out, 2, last - 1)

FieldsOf(body) == SelectSeq(body, LAMBDA e : e.site = "field")

NamesOf(fields) == [i \in 1..Len(fields) |-> fields[i].name]

FieldNamesOf(items) == [i \in 1..Len(items) |-> items[i].field]

PlaceOf(body, name) == CHOOSE p \in 1..Len(body) : body[p].site = "field" /\ body[p].field = name

LowestKey(members) == SortByKey(members)[1].key

\* C19: with a non-negative lowest key the type declaration lists the fields
\* in ascending key order and has, between two consecutive fields, exactly one
\* unused-field marker for each key missing between theirs; with a negative
\* lowest key it has no marker and lists the fields in declaration order.
C19_DeclarationOrderAndMarkers ==
    (Declared /\ res.ok /\ arg.members # <<>>) =>
        LET body == TypeBody(res.out)
            sorted == SortByKey(arg.members)
        IN  IF LowestKey(arg.members) >= 0
            THEN /\ FieldNamesOf(FieldsOf(body)) = NamesOf(sorted)
                 /\ \A j \in 1..(Len(sorted) - 1) :
                       LET p == PlaceOf(body, sorted[j].name)
                           q == PlaceOf(body, sorted[j + 1].name)
                           k == sorted[j].key
                       IN  /\ q - p - 1 = sorted[j + 1].key - k - 1
                           /\ \A d \in 1..(q - p - 1) :
                                 body[p + d].site = "unused" /\ body[p + d].n = k + d
            ELSE /\ FieldNamesOf(body) = NamesOf(arg.members)
                 /\ \A p \in 1..Len(body) : body[p].site = "field"

\* C19 witness: a declaration of two fields whose keys leave a gap was
\* generated with a marker between the fields.
C19_Witness ==
    /\ Declared /\ res.ok /\ Len(arg.members) = 2
    /\ LowestKey(arg.members) >= 0
    /\ \E p \in 1..Len(res.out) : res.out[p].site = "unused"
    /\ arg.members[1].key > arg.members[2].key + 1

\* C20: each field is referred to by one and the same Go identifier in the
\* type declaration, the constructor, the IsSet methods, the readers and the
\* writers, and what the constructor and the writer name is declared.
C20_OneIdentifierPerField ==
    (Declared /\ res.ok) =>
        /\ \A p, q \in 1..Len(res.out) :
              (res.out[p].field # NoField /\ res.out[p].field = res.out[q].field)
                  => res.out[p].ident = res.out[q].ident
        /\ \A p \in 1..Len(res.out) :
              res.out[p].site \in {"new", "write"} =>
                  \E q \in 1..Len(res.out) :
                      res.out[q].site = "field" /\ res.out[q].ident = res.out[p].ident

----------------------------------------------------------------------------
(* Claims about the remote program *)

\* the arity of the requested function, or -1 when the name is missing or
\* not a function of the service
ArityOf(functions, argv) ==
    IF argv # <<>> /\ \E i \in 1..Len(functions) : functions[i].name = argv[1]
    THEN functions[CHOOSE i \in 1..Len(functions) : functions[i].name = argv[1]].num_args
    ELSE -1

\* C18: when the function name is unknown or missing, or the number of
\* positional arguments differs from the function's arity, the remote
\* program prints usage and exits with a non-zero status.
C18_BadCommandLineIsUsageError ==
    (mode = "remote" /\ res # NoResult /\ arg.opens
        /\ ArityOf(arg.functions, arg.argv) # Len(arg.argv) - 1)
    => (res.usage /\ res.status # 0)

----------------------------------------------------------------------------
(* Claims about the order and the framing of Write *)

\* the per-field writers of the struct in ascending order of key
WritersByKey(tstruct) ==
    LET sorted == SortByKey(tstruct.members)
    IN  [i \in 1..Len(sorted) |-> MethodName(sorted[i].key)]

\* the protocol calls each per-field writer of the struct makes for record r
\* when none fails, in ascending order of key
CallsByKey(tstruct, r) ==
    LET sorted == SortByKey(tstruct.members)
        w == generate_go_struct_writer(tstruct, FALSE)
    IN  [i \in 1..Len(sorted) |->
            writeField(tstruct, MethodOf(w.methods, MethodName(sorted[i].key)), r)]

ByKeyDescending(tstruct) == Reverse(SortByKey(tstruct.members))

\* index in members of the first member, from the highest key down, that
\* satisfies Test (0 when none does)
FirstDescending(tstruct, Test(_)) ==
    LET desc == ByKeyDescending(tstruct)
        hits == {i \in 1..Len(desc) : Test(desc[i])}
    IN  IF hits = {} THEN 0
        ELSE MemberOfKey(tstruct.members, desc[CHOOSE i \in hits : \A j \in hits : i <= j].key)

WrittenResult == mode = "codec" /\ kpc = "written" /\ schema.is_result /\ schema.members # <<>>

\* the clauses of the switch stand in descending order of key
TestedHighestFirst ==
    LET desc == ByKeyDescending(schema)
    IN  /\ Len(code.writer.stmts) = Len(desc)
        /\ \A i \in 1..Len(desc) : code.writer.stmts[i].method = MethodName(desc[i].key)

----------------------------------------------------------------------------
(* Claims about the dispatch of Read and the headers of Write *)

\* C23: Read invokes the per-field reader of field f exactly for the field
\* headers whose id is f's declared signed key, also for a negative key, and
\* no two fields of a struct have the same case label.
C23_DispatchOnSignedKey ==
    /\ (mode = "codec" /\ kpc = "generated") =>
          \A i, j \in 1..Len(code.reader.cases) :
              code.reader.cases[i].label = code.reader.cases[j].label => i = j
    /\ (mode = "codec" /\ kpc = "peer_read") =>
          \A j \in 1..Len(rtrace) : \A i \in 1..Len(schema.members) :
              (rtrace[j].act = "read" /\ rtrace[j].method = MethodName(schema.members[i].key))
                  <=> rtrace[j].id = schema.members[i].key

\* C24: every per-field writer that writes makes, in order, a field-begin
\* call with the field's wire type and its declared signed key, the calls of
\* the value, and field-end; Write puts struct-begin before the fields and
\* field-stop and struct-end after them.
C24_HeaderCarriesSignedKey ==
    (mode = "codec" /\ kpc = "written" /\ ~werr /\ ~schema.is_result) =>
        LET sorted == SortByKey(schema.members)
            chunks == CallsByKey(schema, rec)
        IN  /\ wire = <<Op("StructBegin")>> \o ConcatAll(chunks)
                        \o <<Op("FieldStop"), Op("StructEnd")>>
            /\ \A i \in 1..Len(sorted) :
                  chunks[i] # <<>> =>
                      chunks[i] = <<FieldBeginTok(type_to_enum(sorted[i].type), sorted[i].key)>>
                                    \o SerializeField(sorted[i],
                                           rec[MemberOfKey(schema.members, sorted[i].key)])
                                    \o <<Op("FieldEnd")>>

\* C25: a per-field writer makes no protocol call when the field's value is
\* nil, and none when the field has an IsSet method (it is optional, or its
\* type is an enum, also through a typedef) and that method returns false.
C25_AbsentFieldWritesNothing ==
    (mode = "codec" /\ kpc = "written" /\ ~werr /\ ~schema.is_result) =>
        LET sorted == SortByKey(schema.members)
            chunks == CallsByKey(schema, rec)
        IN  \A i \in 1..Len(sorted) :
                LET v == rec[MemberOfKey(schema.members, sorted[i].key)]
                IN  (v.nil \/ (HasIsSetHelper(sorted[i]) /\ ~IsSet(sorted[i], v)))
                        => chunks[i] = <<>>

----------------------------------------------------------------------------
(* Claims about the steps of Process *)

\* Process ran for the request and args.Read returned no error
Decoded ==
    /\ mode = "server" /\ sreq # NoRequest /\ sreq.name \in FunctionNames
    /\ Len(strace) > 0 /\ strace[1].ev = "args.Read" /\ ~strace[1].failed

Steps == {"PreHandle", "handler", "PostHandle", "WriteMessageBegin", "Flush", "Completed"}

\* the calls of the trace that are steps of the claim, by name and in order
StepsOf(trace) ==
    LET sel == SelectSeq(trace, LAMBDA e : e.ev \in Steps)
    IN  [i \in 1..Len(sel) |-> sel[i].ev]

HookFaults(trace) ==
    {e.kind : e \in {trace[i] : i \in {j \in 1..Len(trace) : trace[j].ev \in {"PostHandle", "Completed"}}}}

\* C26: with a listener and decoded arguments Process calls PreHandle, the
\* handler, PostHandle, the writing and the flushing of the response
\* envelope and Completed, each once and in this order, also when the
\* handler panics or returns an error, and then PostHandle and Completed get
\* the fault; without a listener no hook is called.
C26_HooksAroundHandler ==
    Decoded =>
        IF proc.listener
        THEN /\ StepsOf(strace) = <<"PreHandle", "handler", "PostHandle",
                                     "WriteMessageBegin", "Flush", "Completed">>
             /\ \A i \in 1..Len(strace) :
                   (strace[i].ev = "handler" /\ strace[i].failed)
                       => HookFaults(strace) = {"fault"}
        ELSE StepsOf(strace) = <<"handler", "WriteMessageBegin", "Flush">>

\* C26 witness: with a listener the handler panicked, and the trace ends
\* with the flush of the response followed by Completed with the fault.
C26_Witness ==
    /\ Decoded /\ proc.listener
    /\ \E i \in 1..Len(strace) : strace[i].ev = "handler" /\ strace[i].kind = "panic"
    /\ Len(strace) >= 2
    /\ strace[Len(strace)].ev = "Completed" /\ strace[Len(strace)].kind = "fault"
    /\ strace[Len(strace) - 1].ev = "Flush"

----------------------------------------------------------------------------
(* Claims about a client shared by two callers *)

\* the sequence id send<Name> gave to the request of caller c
OwnSeqId(c) == ctrace[c][1].seqid

\* C27: when the calls of two callers interleave on one client and no call
\* on a protocol fails, a recv that reads the REPLY carrying the sequence id
\* of its caller's own request accepts it and does not fail with
\* BAD_SEQUENCE_ID.
C27_InterleavedCallsMatch ==
    \A c \in Callers :
        (mode = "client" /\ RecvGotHeader(c)
            /\ (\A d \in Callers : \A i \in 1..Len(ctrace[d]) : ~ctrace[d][i].failed)
            /\ RecvCalls(c)[2].mtype = "REPLY"
            /\ RecvCalls(c)[2].seqid = OwnSeqId(c))
        => cret[c] # "BAD_SEQUENCE_ID"

\* C28: a recv<Name> whose calls on the input protocol all succeed consumes
\* one whole message, whatever it returns, so that what is left of the input
\* begins with the header of a message.
C28_RecvConsumesWholeMessage ==
    (mode = "client"
        /\ \A c \in Callers : \A i \in 1..Len(RecvCalls(c)) : ~RecvCalls(c)[i].failed)
    => (inbox # <<>> => inbox[1].op = "MsgBegin")

\* the positions in the trace of the calls named ev
PlacesOf(trace, ev) == {i \in 1..Len(trace) : trace[i].ev = ev}

\* C29: for a function that is not one-way, Process makes exactly one
\* WriteMessageBegin, of an EXCEPTION or of a REPLY, with the function's name
\* and the request's sequence id, and after it exactly one Flush; it returns
\* success true only when the message is a REPLY and none of its calls on
\* the output protocol returned an error.
C29_OneEnvelopePerProcess ==
    (mode = "server" /\ Dispatched /\ ~ServedFunction.oneway) =>
        LET begins == PlacesOf(strace, "WriteMessageBegin")
            flushes == PlacesOf(strace, "Flush")
        IN  /\ Cardinality(begins) = 1
            /\ Cardinality(flushes) = 1
            /\ \A b \in begins : \A f \in flushes :
                  /\ b < f
                  /\ strace[b].mtype \in {"EXCEPTION", "REPLY"}
                  /\ strace[b].name = sreq.name
                  /\ strace[b].seqid = sreq.seqId
                  /\ sret.success =>
                        /\ strace[b].mtype = "REPLY"
                        /\ \A i \in 1..Len(strace) : IsOutCall(strace[i]) => ~strace[i].failed

\* C29 witness: the REPLY of a function that is not one-way was written, its
\* flush returned an error, and Process returned success false.
C29_Witness ==
    /\ mode = "server" /\ Dispatched /\ ~ServedFunction.oneway
    /\ \E b \in PlacesOf(strace, "WriteMessageBegin") : strace[b].mtype = "REPLY"
    /\ \E f \in PlacesOf(strace, "Flush") : strace[f].failed
    /\ ~sret.success

----------------------------------------------------------------------------
(* Claims about the unset sentinel of enum fields *)

EnumMembers(tstruct) ==
    {i \in 1..Len(tstruct.members) : is_enum(get_true_type(tstruct.members[i].type))}

\* Read called the per-field reader of member i
WasRead(i) ==
    \E j \in 1..Len(rtrace) :
        rtrace[j].act = "read" /\ rtrace[j].method = MethodName(schema.members[i].key)

\* the sentinel is below the 32-bit range, and a read enum field is set
SentinelOutOfRange ==
    /\ UnsetSentinel < MinInt32
    /\ (mode = "codec" /\ kpc \in {"read", "peer_read"} /\ ~rerr) =>
          \A i \in EnumMembers(schema) :
              WasRead(i) => (rec2[i].n # UnsetSentinel /\ IsSet(schema.members[i], rec2[i]))

\* C30: the unset sentinel lies outside the 32-bit range, so an enum field
\* that its reader assigned is set; and an enum field that was unset before
\* Write is unset in the fresh record that the output was read into.
C30_UnsetEnumStaysUnset ==
    /\ SentinelOutOfRange
    /\ (mode = "codec" /\ kpc = "read" /\ ~rerr) =>
          \A i \in EnumMembers(schema) :
              ~IsSet(schema.members[i], rec[i]) => ~IsSet(schema.members[i], rec2[i])

====
